---- MODULE Spec2Model ----
(***************************************************************************)
(* Model of the KMS/DRM video backend (src/video/kmsdrm): the modeset      *)
(* engine (KMSDRM_SetVideoMode), the buffer engine                         *)
(* (KMSDRM_CreateFramebuffer, KMSDRM_ClearFramebuffers), the present       *)
(* engine (KMSDRM_FlipHWSurface, KMSDRM_TripleBufferingThread,             *)
(* KMSDRM_TripleBufferStop), KMSDRM_VideoQuit and the palette engine       *)
(* (KMSDRM_SetColors, explored on its own in ColorSpec).                   *)
(*                                                                         *)
(* Two threads: the host thread ("h"), whose position is hpc, and the flip *)
(* worker ("w"), whose position is wpc.  The kernel is modelled by the     *)
(* sets of live objects it holds for the backend; ids are handed out       *)
(* lowest-free-first, as the kernel's idr allocator does.                  *)
(*                                                                         *)
(* Modelling decisions:                                                    *)
(*  - SDL mutexes are recursive (owner + count); SDL_CondWait releases one *)
(*    level of the mutex, as pthread_cond_wait does on a recursive mutex.  *)
(*  - SDL_CondSignal wakes one waiter if there is one and is lost          *)
(*    otherwise; spurious wake-ups are not modelled.                       *)
(*  - a step that runs with the mutex held, or while no other thread can   *)
(*    touch the same state, is one action.                                 *)
(*  - drmModeCreatePropertyBlob of the mode blob and                       *)
(*    drmModeAtomicAlloc/Duplicate succeed.                                *)
(*  - a read past the end of the array handed to SetColors yields one      *)
(*    arbitrary SDL_Color per call.                                        *)
(***************************************************************************)
EXTENDS Integers, Sequences, FiniteSets, TLC

\* ------------------------------------------------------------------ bounds
\* Number of pipes registered by VideoInit.
NPipes == 2
\* Largest recursion depth of the present-engine mutex that is explored.
MaxLockDepth == 2
\* Number of palette entries explored (the palette of the code has 256).
PaletteLen == 2
\* Largest number of damage-clips blobs UpdateRects leaves in the kernel.
MaxDamageBlobs == 1
\* Largest number of atomic requests allocated at a time.
MaxReqs == 2
\* Largest number of input events waiting in the kernel, over all devices.
MaxBacklog == 2
\* Largest depth passed to SetVideoMode when the formats are explored.
MaxDepth == 33

\* --------------------------------------------------------- program constants
\* sizeof(drm_buffers) / sizeof(drm_buffers[0])
NSlots == 3
\* (void*)-1, the "free" map sentinel; also the initial drm_mode_blob_id
Sentinel == -1
\* enum drm_scaling_mode
DRM_SCALING_MODE_FULLSCREEN == 0
DRM_SCALING_MODE_ASPECT_RATIO == 1
DRM_SCALING_MODE_INTEGER_SCALED == 2
DRM_SCALING_MODE_END == 3

VARIABLES
    \* hardware found by VideoInit: the one missing property, or <<>>
    hwMissing,
    \* host thread
    hpc,            \* position of the host thread
    hcont,          \* who called KMSDRM_TripleBufferStop: "smv" or "quit"
    args,           \* arguments of the SetVideoMode call in progress
    fb_i,           \* loop variable `i` of the buffer creation loop
    pipeIdx,        \* loop variable `pipe` of the modeset retry loop (index)
    lastRet,        \* result of the last returned host call
    failAt,         \* where the last SetVideoMode bailed out
    tried,          \* pipes attempted by the last SetVideoMode, with outcome
    idx_set,        \* SetVideoMode has set the buffer indexes at least once
    seen,           \* front after each of the last flips of the armed worker
    colorsArg,      \* arguments of the last SetColors call
    \* flip worker
    wpc,            \* position of the flip worker ("none": no thread)
    \* this->hidden
    drm_active_pipe,            \* 0 is NULL
    drm_req,                    \* cached template: "null" or "live"
    drm_buffers,                \* [0..2] -> [handle, buf_id, map, pitch]
    drm_mode_blob_id,
    drm_palette_blob_id,
    drm_palette,                \* [0..PaletteLen-1] -> <<red, green, blue>>
    drm_front_buffer,
    drm_back_buffer,
    drm_queued_buffer,
    drm_triplebuf_thread,       \* 0 is NULL, 1 a thread handle
    drm_triplebuf_thread_stop,
    hidden_bpp,                 \* this->hidden->bpp
    \* present-engine mutex and condition variable
    mtx_owner,      \* "none", "h" or "w"
    mtx_count,
    hWoken,         \* the host, waiting in SDL_CondWait, has been signalled
    \* the surface handed to the host
    surf_flags,     \* "single", "double", "triple"
    surf_pixels,    \* 0 is NULL, Sentinel, or the handle whose mapping it is
    \* kernel
    kFBs,           \* live framebuffer ids
    kHandles,       \* live dumb-buffer handles
    kModeBlobs,     \* live mode property blobs
    kGammaBlobs,    \* live gamma-LUT blobs
    kGammaLut,      \* id and data of the gamma-LUT blob created last
    kReqs,          \* number of live atomic requests (libdrm allocations)
    scanout,        \* FB_ID of the last successful commit on the plane, 0: none
    commitEv,       \* the atomic commit submitted by the last step, if any
    has_damage_clips, \* this->hidden->has_damage_clips
    kDamageBlobs,   \* kernel: live damage-clips blobs
    \* input
    scaling_mode,   \* this->hidden->scaling_mode
    scaling_key,    \* environment: SDL_VIDEO_KMSDRM_SCALING_KEY
    ipc,            \* position of the host thread inside KMSDRM_PumpEvents
    idev,           \* the device KMSDRM_PumpEvents has reached (index)
    bytes_read,     \* result of the last read, in whole events; -1: failed
    read_errno,     \* errno of the last failed read
    evbuf,          \* events[]: the batch the last read returned
    ev_i,           \* loop variable `i` of the event loop
    dev_q,          \* kernel: events waiting on each device
    dev_state,      \* kernel: what a read of each device yields
    input_err,      \* devices for which the last pump called SDL_SetError
    \* KMSDRM_VideoInit
    hw_res,         \* kernel: planes, CRTCs, encoders and connectors
    vpc,            \* position inside KMSDRM_VideoInit
    v_idx,          \* <<plane_idx, crtc_idx, encoder_idx, connector_idx>>
    drm_first_pipe, \* the pipe list, from its head
    drm_vid_modes,  \* the video-mode list, <<w, h>> each
    init_ret,       \* what KMSDRM_VideoInit returned
    \* find_pipe_closest_refresh
    refresh_call,   \* the last call: pipe, refresh and the mode index returned
    \* KMSDRM_SetCrtcParams
    crtc_call,      \* the last call: its arguments, the pipe's factors, the
                    \* value returned and the CRTC_X/Y/W/H it added
    \* get_drm_color_def
    def_call,       \* the last call: depth, flags, what the build makes of a
                    \* negative shift count, and the definition returned
    \* the flip worker, its build and its commit followed apart
    w_req_gamma,    \* GAMMA_LUT in the request the worker has built, 0: none
    \* the keymap lookup of the input pump, one EV_KEY event at a time
    key_call        \* the event's code and value, and what the lookup did

coreVars == <<hwMissing, hpc, hcont, args, fb_i, pipeIdx, lastRet, failAt, tried,
          idx_set, seen, colorsArg, drm_palette, kGammaLut, wpc,
          drm_active_pipe, drm_req, drm_buffers, drm_mode_blob_id,
          drm_palette_blob_id, drm_front_buffer, drm_back_buffer,
          drm_queued_buffer, drm_triplebuf_thread, drm_triplebuf_thread_stop,
          hidden_bpp, mtx_owner, mtx_count, hWoken, surf_flags, surf_pixels,
          kFBs, kHandles, kModeBlobs, kGammaBlobs, kReqs, scanout, commitEv,
          has_damage_clips, kDamageBlobs>>
inputVars == <<scaling_mode, scaling_key, ipc, idev, bytes_read, read_errno,
               evbuf, ev_i, dev_q, dev_state, input_err>>
discVars == <<hw_res, vpc, v_idx, drm_first_pipe, drm_vid_modes, init_ret>>
callVars == <<crtc_call, def_call, w_req_gamma, key_call>>
\* What the present engine leaves alone.
sideVars == <<inputVars, discVars, refresh_call, callVars>>
vars == <<coreVars, sideVars>>

\* No call of the helpers followed on their own has been made.
NoCrtcCall ==
    [width |-> 0, height |-> 0, mode_width |-> 0, mode_height |-> 0,
     factor_w |-> 1, factor_h |-> 1, ret |-> -1, props |-> <<>>]
\* The fields of a color definition when none was returned.
NoDef ==
    [four_cc |-> "NULL", bpp |-> 0, mask |-> <<0, 0, 0, 0>>,
     bits |-> <<0, 0, 0, 0>>, shift |-> <<0, 0, 0, 0>>, h_factor |-> 0]
NoDefCall ==
    [depth |-> 0, flags |-> {}, neg_shift |-> "zero", ret |-> "none", def |-> NoDef]
\* linux/input-event-codes.h, as used at lines 256-258 and 302.
BTN_LEFT == 272
BTN_MIDDLE == 274
BTN_TASK == 279
\* The largest EV_KEY code a device delivers (KEY_MAX of the kernel).
MaxKeyCode == 767

\* Lines 133-259: keymap[] is sized by its designated initialisers; the
\* largest index given is BTN_MIDDLE.
KeymapLen == BTN_MIDDLE + 1

NoKeyCall == [code |-> 0, value |-> 0, done |-> FALSE, index |-> 0,
              in_table |-> TRUE, route |-> "none"]
CallIdle == crtc_call = NoCrtcCall /\ def_call = NoDefCall /\ w_req_gamma = 0
            /\ key_call = NoKeyCall

colorVars == <<colorsArg, drm_palette, kGammaLut>>
hostVars == <<hpc, hcont, args, fb_i, pipeIdx, lastRet, failAt, tried>>
idxVars == <<drm_front_buffer, drm_back_buffer, drm_queued_buffer>>
mtxVars == <<mtx_owner, mtx_count>>
surfVars == <<surf_flags, surf_pixels>>
rectVars == <<has_damage_clips, kDamageBlobs>>
kernVars == <<kFBs, kHandles, kModeBlobs, kGammaBlobs, kReqs, scanout>>

Slots == 0..(NSlots - 1)
PaletteIdx == 0..(PaletteLen - 1)
PipeIds == 1..NPipes

\* ------------------------------------------------------------------ kernel
\* The kernel's mode objects (framebuffers, blobs) share one id space.
ObjIds == kFBs \cup kModeBlobs \cup kGammaBlobs \cup kDamageBlobs

\* idr_alloc: the lowest id >= 1 that is not in use.
lowestFree(used) == CHOOSE n \in 1..(Cardinality(used) + 1) :
                        n \notin used /\ \A m \in 1..(n - 1) : m \in used

\* ------------------------------------------------------- property cache
\* The hardware configurations explored: every property present, or exactly
\* one non-optional property missing from the CRTC or from one plane.
HwConfigs == {<<"none", 0, "">>, <<"crtc", 1, "MODE_ID">>, <<"crtc", 1, "GAMMA_LUT">>}
             \cup {<<"plane", p, n>> : p \in PipeIds, n \in {"FB_ID", "CRTC_W"}}

\* pipe->plane, pipe->crtc: every registered pipe has its own primary plane and
\* they all drive the same CRTC.
PipePlane(p) == p
PipeCrtc(p) == 1

\* add_property(this, req, obj, name, 0, val): 0 iff the object has no such
\* property (helper_find_property fails and the property is not optional).
add_property(kind, id, name) == hwMissing # <<kind, id, name>>

\* The attempt_add_prop calls of the modeset loop, up to the template.
TemplatePropsOK(p) ==
    /\ \A o \in PipeIds : (o # p /\ PipeCrtc(o) = PipeCrtc(p)) =>
            /\ add_property("plane", PipePlane(o), "FB_ID")
            /\ add_property("plane", PipePlane(o), "CRTC_ID")
    /\ add_property("connector", p, "CRTC_ID")
    /\ add_property("crtc", PipeCrtc(p), "MODE_ID")
    /\ add_property("crtc", PipeCrtc(p), "ACTIVE")

\* The attempt_add_prop2 calls of the modeset loop (plane->crtc, SRC_*).
PlanePropsOK(p) ==
    /\ add_property("plane", PipePlane(p), "FB_ID")
    /\ add_property("plane", PipePlane(p), "CRTC_ID")
    /\ \A n \in {"SRC_X", "SRC_Y", "SRC_W", "SRC_H"} :
            add_property("plane", PipePlane(p), n)

\* KMSDRM_SetCrtcParams returns 0 (TRUE here) iff CRTC_X/Y/W/H can be added to
\* the plane and, at 8 bpp, GAMMA_LUT to the CRTC.
KMSDRM_SetCrtcParams(p, bpp) ==
    /\ \A n \in {"CRTC_X", "CRTC_Y", "CRTC_W", "CRTC_H"} :
            add_property("plane", PipePlane(p), n)
    /\ (bpp = 8 => add_property("crtc", PipeCrtc(p), "GAMMA_LUT"))

\* find_property(this, obj, name): the object has the property.
find_property(kind, id, name) == hwMissing # <<kind, id, name>>

\* Mutant of GammaLutProp: GAMMA_LUT is added whatever the bpp.
GammaLutAnyBpp(p, bpp) ==
    IF KMSDRM_SetCrtcParams(p, 8) THEN drm_palette_blob_id ELSE 0

\* Lines 359-373: the GAMMA_LUT value KMSDRM_SetCrtcParams(.., bpp) leaves in
\* a request for pipe p, 0 when it adds none: the property is added at 8 bpp
\* only, after CRTC_X/Y/W/H, and is the cached palette blob id.
GammaLutProp(p, bpp) ==
    IF bpp = 8 /\ KMSDRM_SetCrtcParams(p, bpp) THEN drm_palette_blob_id ELSE 0

\* The flags get_drm_color_def looks at.
FormatFlags == {"SDL_YUV444", "SDL_SWIZZLEBGR"}

\* Mutant of get_drm_color_def: BGR swizzle accepts depth 8 (the case the
\* code has commented out).
ColorDefSwizzle8(depth, flags) ==
    IF "SDL_YUV444" \in flags
    THEN CASE depth = 8 -> "YUV444"
           [] depth = 24 -> "YUV444"
           [] OTHER -> "NULL"
    ELSE IF "SDL_SWIZZLEBGR" \in flags
    THEN CASE depth = 8 -> "YUV444"
           [] depth = 16 -> "BGR565"
           [] depth = 15 -> "XBGR1555"
           [] depth = 24 -> "BGR888"
           [] depth = 30 -> "XBGR2101010"
           [] depth = 32 -> "XBGR8888"
           [] OTHER -> "NULL"
    ELSE CASE depth = 8 -> "C8"
           [] depth = 16 -> "RGB565"
           [] depth = 15 -> "XRGB1555"
           [] depth = 24 -> "RGB888"
           [] depth = 30 -> "XRGB2101010"
           [] depth = 32 -> "XRGB8888"
           [] OTHER -> "NULL"

\* get_drm_color_def(depth, flags): the color definition it returns, by the
\* name of its format, or "NULL".
get_drm_color_def(depth, flags) ==
    IF "SDL_YUV444" \in flags
    THEN CASE depth = 8 -> "YUV444"
           [] depth = 24 -> "YUV444"
           [] OTHER -> "NULL"
    ELSE IF "SDL_SWIZZLEBGR" \in flags
    THEN CASE depth = 16 -> "BGR565"
           [] depth = 15 -> "XBGR1555"
           [] depth = 24 -> "BGR888"
           [] depth = 30 -> "XBGR2101010"
           [] depth = 32 -> "XBGR8888"
           [] OTHER -> "NULL"
    ELSE CASE depth = 8 -> "C8"
           [] depth = 16 -> "RGB565"
           [] depth = 15 -> "XRGB1555"
           [] depth = 24 -> "RGB888"
           [] depth = 30 -> "XRGB2101010"
           [] depth = 32 -> "XRGB8888"
           [] OTHER -> "NULL"

\* What a build makes of 0xFF >> n with n below zero, which the language
\* leaves undefined: the compiler folds it to a shift to the left, or the
\* result is 0.
NegShiftOutcomes == {"left", "zero"}

\* 0xFF >> n
ShiftRightFF(n, neg_shift) ==
    IF n >= 0 THEN 255 \div (2 ^ n)
    ELSE IF neg_shift = "left" THEN 255 * (2 ^ (0 - n)) ELSE 0

\* MAKE_RGBA: (0xFF >> (8 - bits)) << shift
MaskOf(bits, shift, neg_shift) == ShiftRightFF(8 - bits, neg_shift) * (2 ^ shift)

\* MAKE_RGBA(type, bpp, rbits, gbits, bbits, abits, rsh, gsh, bsh, ash)
MAKE_RGBA(type, bpp, bits, shift, neg_shift) ==
    [four_cc |-> type, bpp |-> bpp,
     mask |-> [c \in 1..4 |-> MaskOf(bits[c], shift[c], neg_shift)],
     bits |-> bits, shift |-> shift, h_factor |-> 1]

\* MAKE_YUV(type, bpp, hf)
MAKE_YUV(type, bpp, hf) ==
    [four_cc |-> type, bpp |-> bpp, mask |-> <<0, 0, 0, 0>>,
     bits |-> <<0, 0, 0, 0>>, shift |-> <<0, 0, 0, 0>>, h_factor |-> hf]

\* The color definitions, channels in the order r, g, b, a.
KMSDRM_COLOR(type, ns) ==
    CASE type = "C8" -> MAKE_RGBA(type, 8, <<8, 8, 8, 0>>, <<0, 0, 0, 0>>, ns)
      [] type = "RGB888" -> MAKE_RGBA(type, 24, <<8, 8, 8, 0>>, <<16, 8, 0, 0>>, ns)
      [] type = "XRGB2101010" ->
            MAKE_RGBA(type, 30, <<10, 10, 10, 0>>, <<20, 10, 0, 0>>, ns)
      [] type = "XRGB8888" -> MAKE_RGBA(type, 32, <<8, 8, 8, 0>>, <<16, 8, 0, 0>>, ns)
      [] type = "RGB565" -> MAKE_RGBA(type, 16, <<5, 6, 5, 0>>, <<11, 5, 0, 0>>, ns)
      [] type = "XRGB1555" -> MAKE_RGBA(type, 16, <<5, 5, 5, 0>>, <<10, 5, 0, 0>>, ns)
      [] type = "BGR888" -> MAKE_RGBA(type, 24, <<8, 8, 8, 0>>, <<0, 8, 16, 0>>, ns)
      [] type = "XBGR2101010" ->
            MAKE_RGBA(type, 30, <<10, 10, 10, 0>>, <<0, 10, 20, 0>>, ns)
      [] type = "XBGR8888" -> MAKE_RGBA(type, 32, <<8, 8, 8, 0>>, <<0, 8, 16, 0>>, ns)
      [] type = "BGR565" -> MAKE_RGBA(type, 16, <<5, 6, 5, 0>>, <<0, 5, 11, 0>>, ns)
      [] type = "XBGR1555" -> MAKE_RGBA(type, 16, <<5, 5, 5, 0>>, <<0, 5, 10, 0>>, ns)
      [] type = "YUV444" -> MAKE_YUV(type, 8, 3)

\* No SetVideoMode call is in progress.
NoArgs == [bpp |-> 0, n_buf |-> 0, flags |-> {}, color_def |-> "NULL"]

\* ------------------------------------------------------------ mutex, cond
CanLock(t) == mtx_owner \in {"none", t}

\* SDL_LockMutex by t when CanLock(t): <<owner, count>> afterwards.
LockedBy(t) == <<t, mtx_count + 1>>

\* SDL_UnlockMutex, and the release done by SDL_CondWait: one level.
Released(owner, count) == IF count <= 1 THEN <<"none", 0>> ELSE <<owner, count - 1>>

\* The threads blocked in SDL_CondWait(drm_triplebuf_cond) and not yet signalled.
CondWaiters == (IF hpc = "hs_wait" /\ ~hWoken THEN {"h"} ELSE {})
               \cup (IF wpc = "wait" THEN {"w"} ELSE {})

\* SDL_CondSignal: the thread it wakes, "nobody" when none is waiting.
SignalTargets == IF CondWaiters = {} THEN {"nobody"} ELSE CondWaiters

\* ----------------------------------------------------------------- palette
\* The SDL_Color values a caller of SetColors passes.
ColorSet == {[r |-> 1, g |-> 2, b |-> 3], [r |-> 255, g |-> 128, b |-> 0]}

\* What a read of an SDL_Color can yield: a caller's color, or whatever lies
\* behind the caller's array.
ColorBytes == ColorSet \cup {[r |-> 7, g |-> 7, b |-> 7]}

\* c << 8, stored in a 16-bit field of struct drm_color_lut.
Lut16(c) == (c * 256) % 65536

\* The struct drm_color_lut written for SDL_Color c.
LutOf(c) == <<Lut16(c.r), Lut16(c.g), Lut16(c.b)>>

\* drm_palette after the memset of KMSDRM_CreateDevice.
ZeroPalette == [i \in PaletteIdx |-> <<0, 0, 0>>]

\* ----------------------------------------------------------------- buffers
FreeSlot == [handle |-> 0, buf_id |-> 0, map |-> Sentinel, pitch |-> 0]

\* KMSDRM_ClearFramebuffers on slot array bufs, with fbs and handles live in
\* the kernel: every slot whose handle is not -1 is unmapped, its buf_id is
\* passed to drmModeRmFB, its handle to DRM_IOCTL_MODE_DESTROY_DUMB, and its
\* map is reset to the sentinel (the handle is not).
KMSDRM_ClearFramebuffers(bufs, fbs, handles) ==
    LET hit == {i \in Slots : bufs[i].handle # Sentinel}
    IN [bufs |-> [i \in Slots |-> IF i \in hit
                                  THEN [bufs[i] EXCEPT !.map = Sentinel]
                                  ELSE bufs[i]],
        fbs |-> fbs \ {bufs[i].buf_id : i \in hit},
        handles |-> handles \ {bufs[i].handle : i \in hit}]

\* Line 309: the slots for which KMSDRM_ClearFramebuffers issues drmUnmap,
\* drmModeRmFB and DRM_IOCTL_MODE_DESTROY_DUMB.
ClearHits(bufs) == {i \in Slots : bufs[i].handle # Sentinel}

\* The plane after framebuffers were removed: removing the framebuffer that is
\* being scanned out disables the plane.
ScanoutAfterRm(fbs) == IF scanout \in fbs THEN scanout ELSE 0

\* No atomic commit was submitted.
NoCommit == [by |-> "none", fb |-> 0, ok |-> FALSE, built |-> FALSE, bpp |-> 0,
             gamma |-> 0, locked |-> FALSE]

\* The drmModeAtomicCommit submitted by `by` (modeset, flip, worker, rects; the
\* thread is t) with result ok, of a request for pipe p with FB_ID fb that
\* went through KMSDRM_SetCrtcParams(.., bpp).  built: there is a request
\* (drmModeAtomicDuplicate of a null template yields none).  locked: the
\* thread holds the present-engine mutex while it builds and commits.
CommitOf(by, t, p, fb, ok, bpp, built) ==
    [by |-> by, fb |-> fb, ok |-> ok, built |-> built, bpp |-> bpp,
     gamma |-> IF built THEN GammaLutProp(p, bpp) ELSE 0,
     locked |-> (mtx_owner = t)]

TypeOK ==
    /\ hwMissing \in HwConfigs
    /\ wpc \in {"none", "start", "locked", "towait", "wait", "woken", "check",
               "built",
                "rotate", "commit", "exited"}
    /\ drm_active_pipe \in 0..NPipes
    /\ drm_req \in {"null", "live"}
    /\ {drm_front_buffer, drm_back_buffer, drm_queued_buffer} \subseteq Slots
    /\ mtx_owner \in {"none", "h", "w"}
    /\ mtx_count \in 0..(MaxLockDepth + 1)
    /\ surf_flags \in {"single", "double", "triple"}

\* ------------------------------------------------------------------- input
\* this->hidden->keyboards followed by this->hidden->mice, the order in which
\* KMSDRM_PumpEvents visits the devices.
Devs == <<"keyboard", "mouse">>
DevIdx == 1..Len(Devs)

\* struct input_event, the fields the pump reads.  Code 5 and code 0 are
\* keys; value 0 is a release, 1 a press, 2 an autorepeat.
InputEvents == {[type |-> "EV_KEY", code |-> 5, value |-> 1],
                [type |-> "EV_KEY", code |-> 5, value |-> 0],
                [type |-> "EV_KEY", code |-> 5, value |-> 2],
                [type |-> "EV_KEY", code |-> 0, value |-> 1],
                [type |-> "EV_REL", code |-> 5, value |-> 1]}

\* getenv("SDL_VIDEO_KMSDRM_SCALING_KEY"): NULL, or a string given by its
\* characters.
EnvValues == {[set |-> FALSE, val |-> <<>>],
              [set |-> TRUE, val |-> <<"5">>],
              [set |-> TRUE, val |-> <<"x">>]}

DecimalDigits == <<"0", "1", "2", "3", "4", "5", "6", "7", "8", "9">>
IsDigit(c) == \E k \in 1..Len(DecimalDigits) : DecimalDigits[k] = c
DigitValue(c) == (CHOOSE k \in 1..Len(DecimalDigits) : DecimalDigits[k] = c) - 1

\* The value of the leading decimal digits of str, continuing from acc.
RECURSIVE AtoiDigits(_, _)
AtoiDigits(str, acc) ==
    IF str = <<>> \/ ~IsDigit(Head(str)) THEN acc
    ELSE AtoiDigits(Tail(str), acc * 10 + DigitValue(Head(str)))

\* atoi(str): white space is skipped, then an optional sign, then the digits;
\* 0 when there are none.
RECURSIVE atoi(_)
atoi(str) ==
    IF str = <<>> THEN 0
    ELSE IF Head(str) = " " THEN atoi(Tail(str))
    ELSE IF Head(str) = "-" THEN 0 - AtoiDigits(Tail(str), 0)
    ELSE IF Head(str) = "+" THEN AtoiDigits(Tail(str), 0)
    ELSE AtoiDigits(str, 0)

\* Mutant of KMSDRM_HandleScaling: no wrap at the terminator.
HandleScalingNoWrap(mode) == mode + 1

\* KMSDRM_HandleScaling: scaling_mode++, back to 0 at DRM_SCALING_MODE_END.
KMSDRM_HandleScaling(mode) ==
    IF mode + 1 = DRM_SCALING_MODE_END THEN 0 ELSE mode + 1

\* Lines 290-297: the event is the scaling key (pressed or released), which
\* the pump consumes.
IsScalingKey(e) ==
    /\ e.type = "EV_KEY"
    /\ scaling_key.set
    /\ e.code = atoi(scaling_key.val)

\* Lines 289-329: scaling_mode after the pump has processed event e.
ScalingAfter(mode, e) ==
    IF IsScalingKey(e) /\ e.value # 0 THEN KMSDRM_HandleScaling(mode) ELSE mode

\* Number of events waiting in the kernel.
RECURSIVE BacklogFrom(_)
BacklogFrom(d) == IF d > Len(Devs) THEN 0 ELSE Len(dev_q[d]) + BacklogFrom(d + 1)
Backlog == BacklogFrom(1)

\* read(fd, events, sizeof(events)) on the non-blocking fd of device d:
\* <<bytes_read in whole events, errno, the events>>.  A device that is gone
\* fails with ENODEV or, at end of file, yields 0 bytes; an empty queue fails
\* with EAGAIN; else the waiting events are returned (they fit events[32]).
ReadResult(d) ==
    CASE dev_state[d] = "error" -> <<-1, "ENODEV", <<>>>>
      [] dev_state[d] = "eof" -> <<0, "", <<>>>>
      [] dev_q[d] = <<>> -> <<-1, "EAGAIN", <<>>>>
      [] OTHER -> <<Len(dev_q[d]), "", dev_q[d]>>

\* KMSDRM_CreateDevice zeroes hidden (scaling_mode is FULLSCREEN);
\* KMSDRM_InitInput opens the devices; no pump is running.
InputIdle ==
    /\ scaling_mode = DRM_SCALING_MODE_FULLSCREEN
    /\ ipc = "idle" /\ idev = 0
    /\ bytes_read = 0 /\ read_errno = ""
    /\ evbuf = <<>> /\ ev_i = 0
    /\ dev_q = [d \in DevIdx |-> <<>>]
    /\ dev_state = [d \in DevIdx |-> "ok"]
    /\ input_err = {}

\* ----------------------------------------------------------- pipe discovery
\* mask & (1 << idx)
BitSet(mask, idx) == (mask \div (2 ^ idx)) % 2 = 1

\* nearbyintf(a / b) for a >= 0, b > 0: the nearest integer, the even one
\* when two are as near.
nearbyintf(a, b) ==
    LET f == a \div b
        twice == 2 * (a % b)
    IN IF twice < b THEN f
       ELSE IF twice > b THEN f + 1
       ELSE IF f % 2 = 0 THEN f ELSE f + 1

\* KMSDRM_LookupVidMode # -1.
KMSDRM_LookupVidMode(modes, width, height) ==
    \E i \in 1..Len(modes) : modes[i] = <<width, height>>

\* KMSDRM_RegisterVidMode: the list afterwards.
KMSDRM_RegisterVidMode(modes, width, height) ==
    IF KMSDRM_LookupVidMode(modes, width, height) THEN modes
    ELSE Append(modes, <<width, height>>)

\* save_drm_pipe, lines 101-111: <<factor_w, factor_h>> of a connector.
PipeFactors(conn) ==
    IF conn.modes = <<>> THEN <<1, 1>>
    ELSE LET ppmm_w == (conn.modes[1].hdisplay * 65536) \div conn.mmWidth
             ppmm_h == (conn.modes[1].vdisplay * 65536) \div conn.mmHeight
         IN IF nearbyintf(ppmm_w, ppmm_h) > 1
            THEN <<nearbyintf(ppmm_w, ppmm_h), 1>>
            ELSE IF nearbyintf(ppmm_h, ppmm_w) > 1
            THEN <<1, nearbyintf(ppmm_h, ppmm_w)>>
            ELSE <<1, 1>>

\* save_drm_pipe, lines 113-126: the video-mode list after the modes of the
\* connector, from the i-th on, were registered.
RECURSIVE RegisterModes(_, _, _, _)
RegisterModes(modes, conn, f, i) ==
    IF i > Len(conn.modes) THEN modes
    ELSE LET plain == KMSDRM_RegisterVidMode(modes, conn.modes[i].hdisplay,
                                             conn.modes[i].vdisplay)
             both == IF f[1] # 1 \/ f[2] # 1
                     THEN KMSDRM_RegisterVidMode(plain,
                                                 conn.modes[i].hdisplay \div f[1],
                                                 conn.modes[i].vdisplay \div f[2])
                     ELSE plain
         IN RegisterModes(both, conn, f, i + 1)

\* Mutant of LinkPipe: the new pipe becomes the head of the list.
LinkPipeFirst(pipes, pipe) == <<pipe>> \o pipes

\* save_drm_pipe, lines 128-139: the pipe is linked behind the last one.
LinkPipe(pipes, pipe) == Append(pipes, pipe)

\* save_drm_pipe(plane, crtc, enc, conn): the pipe it builds.
NewPipe(plane, crtc, enc, conn) ==
    [plane |-> plane, crtc |-> crtc, encoder |-> enc,
     connector |-> conn.connector_id, mode_count |-> Len(conn.modes),
     factor_w |-> PipeFactors(conn)[1], factor_h |-> PipeFactors(conn)[2]]

\* KMSDRM_VideoInit, lines 169-174: the pathway is complete and suitable.
Suitable(plane, crtc, crtc_idx, enc, conn) ==
    /\ crtc.exists /\ enc.exists /\ conn.exists
    /\ BitSet(plane.possible_crtcs, crtc_idx)
    /\ BitSet(enc.possible_crtcs, crtc_idx)
    /\ conn.encoder_id = enc.encoder_id
    /\ conn.connection = "DRM_MODE_CONNECTED"
    /\ Len(conn.modes) > 0

\* The next value of <<plane_idx, crtc_idx, encoder_idx, connector_idx>> in
\* the loop nest of lines 157-166 (connectors innermost).
NextQuad(q, res) ==
    IF q[4] + 1 < Len(res.connectors) THEN <<q[1], q[2], q[3], q[4] + 1>>
    ELSE IF q[3] + 1 < Len(res.encoders) THEN <<q[1], q[2], q[3] + 1, 0>>
    ELSE IF q[2] + 1 < Len(res.crtcs) THEN <<q[1], q[2] + 1, 0, 0>>
    ELSE <<q[1] + 1, 0, 0, 0>>

\* Planes, CRTCs, encoders and connectors of the hardware explored.  A plane
\* is primary or overlay; an object for which drmModeGet* fails does not
\* exist.
Plane(id, mask, type, exists) ==
    [plane_id |-> id, possible_crtcs |-> mask, type |-> type, exists |-> exists]
Crtc(id, exists) == [crtc_id |-> id, exists |-> exists]
Encoder(id, mask) == [encoder_id |-> id, possible_crtcs |-> mask, exists |-> TRUE]
Mode(w, h) == [hdisplay |-> w, vdisplay |-> h]
Connector(id, enc, connection, modes, mmw, mmh) ==
    [connector_id |-> id, encoder_id |-> enc, connection |-> connection,
     modes |-> modes, mmWidth |-> mmw, mmHeight |-> mmh, exists |-> TRUE]

HwPlaneLists ==
    {<<Plane(31, 1, "primary", TRUE)>>,
     <<Plane(31, 1, "primary", TRUE), Plane(32, 3, "overlay", TRUE)>>,
     <<Plane(31, 1, "overlay", TRUE), Plane(32, 2, "primary", TRUE)>>,
     <<Plane(31, 2, "primary", FALSE), Plane(32, 3, "primary", TRUE)>>}
HwCrtcLists ==
    {<<Crtc(41, TRUE), Crtc(42, TRUE)>>, <<Crtc(41, TRUE), Crtc(42, FALSE)>>}
HwEncoderLists ==
    {<<Encoder(51, 1)>>, <<Encoder(51, 1), Encoder(52, 2)>>, <<Encoder(51, 3)>>}
HwConnectorKinds(id) ==
    {Connector(id, 51, "DRM_MODE_CONNECTED",
               <<Mode(320, 240), Mode(640, 480)>>, 4, 3),
     Connector(id, 51, "DRM_MODE_CONNECTED",
               <<Mode(640, 480), Mode(320, 240)>>, 2, 3),
     Connector(id, 51, "DRM_MODE_DISCONNECTED", <<Mode(640, 480)>>, 4, 3),
     Connector(id, 52, "DRM_MODE_CONNECTED", <<Mode(640, 480)>>, 4, 3),
     Connector(id, 51, "DRM_MODE_CONNECTED", <<>>, 4, 3),
     Connector(id, 0, "DRM_MODE_CONNECTED", <<Mode(320, 240)>>, 4, 3)}
HwConnectorLists ==
    {<<c>> : c \in HwConnectorKinds(61)}
    \cup {<<c, d>> : c \in HwConnectorKinds(61), d \in HwConnectorKinds(62)}
HwResources ==
    [planes : HwPlaneLists, crtcs : HwCrtcLists, encoders : HwEncoderLists,
     connectors : HwConnectorLists]

\* ---------------------------------------------------------- scaling helper
\* Mutant of UnsignedHalfDiff: the size is added instead of subtracted.
UnsignedHalfSum(a, b) == (a + b) \div 2

\* (int - unsigned) / 2 in 32-bit unsigned arithmetic, for a and b below 2^31:
\* a difference below zero wraps to 2^32 + a - b before it is halved.
UnsignedHalfDiff(a, b) ==
    IF a >= b THEN (a - b) \div 2
    ELSE 2147483647 - ((b - a + 1) \div 2) + 1

\* Mutant of CrtcSize: the letterbox test compares the other way round.
CrtcSizePillarbox(mode, width, height, mode_width, mode_height, factor_w, factor_h) ==
    IF mode = DRM_SCALING_MODE_ASPECT_RATIO
    THEN IF width * mode_height * factor_w < height * mode_width * factor_h
         THEN <<mode_width,
                (factor_h * mode_width * height) \div (width * factor_w)>>
         ELSE <<(factor_w * mode_height * width) \div (height * factor_h),
                mode_height>>
    ELSE IF /\ mode = DRM_SCALING_MODE_INTEGER_SCALED
            /\ width < mode_width \div factor_w
            /\ height < mode_height \div factor_h
    THEN <<width * (mode_width \div (width * factor_w)),
           height * (mode_height \div (height * factor_h))>>
    ELSE <<mode_width, mode_height>>

\* KMSDRM_SetCrtcParams, lines 329-357: <<crtc_w, crtc_h>> in the scaling
\* modes other than DRM_SCALING_MODE_END.
CrtcSize(mode, width, height, mode_width, mode_height, factor_w, factor_h) ==
    IF mode = DRM_SCALING_MODE_ASPECT_RATIO
    THEN IF width * mode_height * factor_w > height * mode_width * factor_h
         THEN <<mode_width,
                (factor_h * mode_width * height) \div (width * factor_w)>>
         ELSE <<(factor_w * mode_height * width) \div (height * factor_h),
                mode_height>>
    ELSE IF /\ mode = DRM_SCALING_MODE_INTEGER_SCALED
            /\ width < mode_width \div factor_w
            /\ height < mode_height \div factor_h
    THEN <<width * (mode_width \div (width * factor_w)),
           height * (mode_height \div (height * factor_h))>>
    ELSE <<mode_width, mode_height>>

\* KMSDRM_SetCrtcParams, lines 359-369: the properties added to the plane.
CrtcProps(mode, width, height, mode_width, mode_height, factor_w, factor_h) ==
    LET size == CrtcSize(mode, width, height, mode_width, mode_height,
                         factor_w, factor_h)
    IN [CRTC_X |-> UnsignedHalfDiff(mode_width, size[1]),
        CRTC_Y |-> UnsignedHalfDiff(mode_height, size[2]),
        CRTC_W |-> size[1], CRTC_H |-> size[2]]

\* Source sizes, CRTC sizes and pipe factors explored (save_drm_pipe sets at
\* most one factor above 1).
SourceWidths == {1, 3, 160, 320, 400, 640, 1000}
SourceHeights == {1, 7, 240, 480, 1000}
ModeWidths == {1, 640, 800, 801}
ModeHeights == {1, 480, 600}
FactorPairs == {<<1, 1>>, <<2, 1>>, <<3, 1>>, <<1, 2>>, <<1, 3>>}
CrtcCalls ==
    {[width |-> w, height |-> h, mode_width |-> mw, mode_height |-> mh,
      factor_w |-> f[1], factor_h |-> f[2], ret |-> -1, props |-> <<>>] :
        w \in SourceWidths, h \in SourceHeights, mw \in ModeWidths,
        mh \in ModeHeights, f \in FactorPairs}

\* ------------------------------------------------------- refresh selection
\* The longest mode list of a pipe explored by RefreshSpec.
MaxModes == 3

\* A float is kept as the integer value * 2^FloatFraction; every float from
\* 1 up to 128 is such an integer below 2^30.
FloatFraction == 23
\* The bits of a float's significand.
FloatBits == 24

\* The number of bits of n > 0.
RECURSIVE BitLength(_)
BitLength(n) == IF n < 2 THEN 1 ELSE 1 + BitLength(n \div 2)

\* The conversion of num / den (from 1 up to 128) to float, to the nearest
\* float and to the one with an even significand when two are as near.
ToFloat(num, den) ==
    LET q == num \div den
        e == BitLength(q) - 1
        k == FloatFraction - e
        m == q * 2 ^ k + nearbyintf((num % den) * 2 ^ k, den)
    IN m * 2 ^ e

\* The rounding of the result of a float operation, d >= 0 being the exact
\* result * 2^FloatFraction.
RoundFloat(d) ==
    IF d < 2 ^ FloatBits THEN d
    ELSE LET s == BitLength(d) - FloatBits
         IN nearbyintf(d, 2 ^ s) * 2 ^ s

\* mode_vrefresh: clock * 1000.00 / (htotal * vtotal), returned as a float.
mode_vrefresh(mode) == ToFloat(mode.clock * 1000, mode.htotal * mode.vtotal)

\* fabs(mode_vrefresh(mode) - refresh) stored in a float (lines 310-311);
\* refresh is a whole number of Hz.
RefreshDelta(mode, refresh) ==
    LET d == mode_vrefresh(mode) - refresh * 2 ^ FloatFraction
    IN RoundFloat(IF d < 0 THEN -d ELSE d)

\* The loop of find_pipe_closest_refresh from index i on, first being the
\* index (from 0) of the mode held so far.
RECURSIVE ClosestFrom(_, _, _, _)
ClosestFrom(modes, refresh, first, i) ==
    IF i >= Len(modes) THEN first
    ELSE LET delta_first == RefreshDelta(modes[first + 1], refresh)
             delta_this == RefreshDelta(modes[i + 1], refresh)
         IN ClosestFrom(modes, refresh,
                        IF delta_this < delta_first THEN i ELSE first,
                        i + 1)

\* find_pipe_closest_refresh: the index (from 0) of the mode returned.
find_pipe_closest_refresh(modes, refresh) == ClosestFrom(modes, refresh, 0, 1)

\* Timings explored, clock in kHz: 64 1/3, 63 2/3, 60, 50, 75 1/3, 44 2/3
\* and 60 Hz.
Timing(clock, htotal, vtotal) ==
    [clock |-> clock, htotal |-> htotal, vtotal |-> vtotal]
RefreshModes ==
    {Timing(193, 60, 50), Timing(191, 60, 50), Timing(180, 60, 50),
     Timing(150, 60, 50), Timing(226, 60, 50), Timing(134, 60, 50),
     Timing(96, 40, 40)}
RefreshTargets == {60, 64}
RefreshPipes ==
    UNION {[1..n -> RefreshModes] : n \in 1..MaxModes}

\* KMSDRM_VideoInit has run on the hardware of the present engine.
DiscIdle ==
    /\ hw_res = [planes |-> <<>>, crtcs |-> <<>>, encoders |-> <<>>,
                 connectors |-> <<>>]
    /\ vpc = "done" /\ v_idx = <<0, 0, 0, 0>>
    /\ drm_first_pipe = <<>> /\ drm_vid_modes = <<>>
    /\ init_ret = 0

\* The engines other than the present engine at rest.
SideIdle ==
    /\ InputIdle /\ scaling_key = [set |-> FALSE, val |-> <<>>]
    /\ DiscIdle
    /\ refresh_call = [pipe |-> <<>>, refresh |-> 0, ret |-> 0]
    /\ CallIdle

\* --------------------------------------------------------------------- Init
\* The state after KMSDRM_CreateDevice (hidden zeroed) and a successful
\* KMSDRM_VideoInit: pipes registered, map sentinels set, mode blob id -1, the
\* gamma blob created, mutex and condition variable created, no thread.
InitRest ==
    /\ hpc = "idle" /\ hcont = "none"
    /\ args = NoArgs
    /\ fb_i = 0 /\ pipeIdx = 0
    /\ lastRet = "none" /\ failAt = "none" /\ tried = <<>>
    /\ idx_set = FALSE
    /\ seen = <<>>
    /\ colorsArg = [first |-> 0, n |-> 0, colors |-> <<>>, ret |-> 0]
    /\ drm_palette = ZeroPalette
    /\ kGammaLut = [id |-> 1, data |-> ZeroPalette]
    /\ wpc = "none"
    /\ drm_active_pipe = 0
    /\ drm_req = "null"
    /\ drm_buffers = [i \in Slots |-> FreeSlot]
    /\ drm_mode_blob_id = Sentinel
    /\ drm_palette_blob_id = 1
    /\ drm_front_buffer = 0 /\ drm_back_buffer = 0 /\ drm_queued_buffer = 0
    /\ drm_triplebuf_thread = 0
    /\ drm_triplebuf_thread_stop = 0
    /\ hidden_bpp = 0
    /\ mtx_owner = "none" /\ mtx_count = 0
    /\ hWoken = FALSE
    /\ surf_flags = "single" /\ surf_pixels = 0
    /\ kFBs = {} /\ kHandles = {} /\ kModeBlobs = {} /\ kGammaBlobs = {1}
    /\ kReqs = 0
    /\ scanout = 0
    /\ commitEv = NoCommit
    /\ has_damage_clips = FALSE
    /\ kDamageBlobs = {}

\* KMSDRM_VideoInit on the hardware configurations explored.
Init == hwMissing \in HwConfigs /\ InitRest /\ SideIdle

\* ------------------------------------------------------------ present state
\* KMSDRM_SetVideoMode, "Set all buffer indexes": <<front, back, queued>>.
ResetIndexes == <<0, 1, 2>>

\* Mutant of SwapFrontBack: FlipHWSurface leaves the indexes alone.
NoSwap == <<drm_front_buffer, drm_back_buffer, drm_queued_buffer>>

\* KMSDRM_FlipHWSurface, "Swap between the two available buffers".
SwapFrontBack == <<drm_back_buffer, drm_front_buffer, drm_queued_buffer>>

\* Mutant of RotateQueuedFront: the rotation without the temporary `page`
\* (queued = front; front = queued).
RotateNoTemp == <<drm_front_buffer, drm_back_buffer, drm_front_buffer>>

\* KMSDRM_TripleBufferingThread, "Flip the most recent back buffer with the
\* front buffer": page = queued; queued = front; front = page.
RotateQueuedFront == <<drm_queued_buffer, drm_back_buffer, drm_front_buffer>>

\* FB_ID of the modeset commit: drm_buffers[drm_front_buffer].buf_id.
ModesetFB == drm_buffers[drm_front_buffer].buf_id

\* Mutant of DoubleFlipFB: the double-buffer flip commits the front slot.
DoubleFlipFront == drm_buffers[drm_front_buffer].buf_id

\* FB_ID of the double-buffer flip: drm_buffers[drm_back_buffer].buf_id.
DoubleFlipFB == drm_buffers[drm_back_buffer].buf_id

\* FB_ID of the worker's flip: drm_buffers[drm_queued_buffer].buf_id, read
\* after the rotation.
WorkerFlipFB == drm_buffers[drm_queued_buffer].buf_id

\* current->pixels as KMSDRM_SetVideoMode sets it.
ModesetPixels(n_buf) == IF n_buf >= 2 THEN drm_buffers[drm_back_buffer].map
                        ELSE drm_buffers[drm_front_buffer].map

\* A flip commit can succeed only on a request duplicated from a template,
\* whose FB_ID names a live framebuffer; the kernel may still reject it.
FlipCommitResults(fb) == IF drm_req = "live" /\ fb \in kFBs THEN {TRUE, FALSE}
                         ELSE {FALSE}

\* ------------------------------------------------------------ buffer engine
CreateOutcomes == {"ok", "create_dumb", "addfb", "map_dumb", "mmap"}

\* KMSDRM_CreateFramebuffer(idx): what it returns and leaves behind when the
\* named step fails ("ok": none does).  A failed mmap goes unnoticed: the test
\* reads this->hidden->map, not drm_buffers[idx].map.
KMSDRM_CreateFramebuffer(idx, outcome) ==
    LET h == lowestFree(kHandles)
        id == lowestFree(ObjIds)
        old == drm_buffers[idx]
    IN CASE outcome = "create_dumb" ->
              [ret |-> 0, slot |-> old, handles |-> kHandles, fbs |-> kFBs]
         [] outcome = "addfb" ->
              [ret |-> 0, slot |-> [old EXCEPT !.handle = h, !.pitch = 0],
               handles |-> kHandles, fbs |-> kFBs]
         [] outcome = "map_dumb" ->
              [ret |-> 0,
               slot |-> [old EXCEPT !.handle = h, !.buf_id = id, !.pitch = 0],
               handles |-> kHandles, fbs |-> kFBs]
         [] outcome = "mmap" ->
              [ret |-> 1,
               slot |-> [handle |-> h, buf_id |-> id, map |-> Sentinel, pitch |-> 1],
               handles |-> kHandles \cup {h}, fbs |-> kFBs \cup {id}]
         [] OTHER ->
              [ret |-> 1,
               slot |-> [handle |-> h, buf_id |-> id, map |-> h, pitch |-> 1],
               handles |-> kHandles \cup {h}, fbs |-> kFBs \cup {id}]

\* KMSDRM_ClearFramebuffers as (part of) a step, after the slot array and the
\* kernel sets became bufs, fbs and handles.
DoClearFramebuffers(bufs, fbs, handles) ==
    LET c == KMSDRM_ClearFramebuffers(bufs, fbs, handles)
    IN /\ drm_buffers' = c.bufs
       /\ kFBs' = c.fbs
       /\ kHandles' = c.handles
       /\ scanout' = ScanoutAfterRm(c.fbs)

\* Mutant of StartsWorker: a double-buffered mode gets a worker too.
StartsWorkerDouble(n_buf) == n_buf >= 2

\* Line 545: the worker is created for a triple-buffered mode only.
StartsWorker(n_buf) == n_buf = 3

\* SetVideoMode returns NULL (label setvidmode_fail).
ReturnNull(why) ==
    /\ hpc' = "idle" /\ lastRet' = "null" /\ failAt' = why
    /\ args' = NoArgs
    /\ fb_i' = 0 /\ pipeIdx' = 0

\* ------------------------------------------------------ KMSDRM_SetVideoMode
Bpps == {8, 16, 12}
BufModes == 1..3
FlagsOf(n_buf) == CASE n_buf = 3 -> "triple" [] n_buf = 2 -> "double" [] OTHER -> "single"

\* Mutant of NeedsStop: the worker is not stopped before the cleanup.
NeverStops == FALSE

\* Entry: with a mode already set, stop the worker first if there is one.
NeedsStop == drm_triplebuf_thread # 0

\* Mutant of ReentryCleans: a new SetVideoMode keeps what the last one made.
NoReentryCleanup == FALSE

\* Line 385: a mode was set before, clean up first.
ReentryCleans == drm_active_pipe # 0

\* Lines 378-395: SetVideoMode(bpp, flags) is called, where flags ask for
\* n_buf buffers and hold the format flags fmt.
SVM_CallFlags(bpp, n_buf, fmt) ==
    /\ hpc = "idle"
    /\ args' = [bpp |-> bpp, n_buf |-> n_buf, flags |-> fmt, color_def |-> "NULL"]
    /\ tried' = <<>> /\ failAt' = "none" /\ lastRet' = "none"
    /\ IF ReentryCleans
       THEN IF NeedsStop THEN hpc' = "stop_lock" /\ hcont' = "smv"
                         ELSE hpc' = "smv_cleanup" /\ hcont' = hcont
       ELSE hpc' = "smv_setup" /\ hcont' = hcont
    /\ seen' = <<>>
    /\ UNCHANGED <<sideVars, hwMissing, rectVars, colorVars, idx_set, fb_i, pipeIdx, wpc, drm_active_pipe, drm_req,
                   drm_buffers, drm_mode_blob_id, drm_palette_blob_id, idxVars,
                   drm_triplebuf_thread, drm_triplebuf_thread_stop, hidden_bpp,
                   mtxVars, hWoken, surfVars, kernVars>>
    /\ commitEv' = NoCommit

\* SetVideoMode with neither SDL_YUV444 nor SDL_SWIZZLEBGR.
SVM_Call(bpp, n_buf) == SVM_CallFlags(bpp, n_buf, {})

\* Lines 390-394: forget the pipe, clear the buffers, destroy the mode blob,
\* free the template.
SVM_Cleanup ==
    /\ hpc = "smv_cleanup"
    /\ drm_active_pipe' = 0
    /\ DoClearFramebuffers(drm_buffers, kFBs, kHandles)
    /\ kModeBlobs' = kModeBlobs \ {drm_mode_blob_id}
    /\ kGammaBlobs' = kGammaBlobs \ {drm_mode_blob_id}
    /\ kReqs' = IF drm_req = "live" THEN kReqs - 1 ELSE kReqs
    /\ drm_req' = "null"
    /\ hpc' = "smv_setup"
    /\ UNCHANGED <<sideVars, hwMissing, rectVars, colorVars, seen, idx_set, hcont, args, fb_i, pipeIdx, lastRet, failAt, tried,
                   wpc, drm_mode_blob_id, drm_palette_blob_id, idxVars,
                   drm_triplebuf_thread, drm_triplebuf_thread_stop, hidden_bpp,
                   mtxVars, hWoken, surfVars>>
    /\ commitEv' = NoCommit

\* Lines 407-417: reset the indexes, pick the color definition.
SVM_Setup ==
    /\ hpc = "smv_setup"
    /\ drm_front_buffer' = ResetIndexes[1]
    /\ drm_back_buffer' = ResetIndexes[2]
    /\ drm_queued_buffer' = ResetIndexes[3]
    /\ idx_set' = TRUE
    /\ IF get_drm_color_def(args.bpp, args.flags) # "NULL"
       THEN /\ hpc' = "smv_create" /\ fb_i' = 0
            /\ args' = [args EXCEPT !.color_def =
                                    get_drm_color_def(args.bpp, args.flags)]
            /\ UNCHANGED <<pipeIdx, lastRet, failAt>>
       ELSE ReturnNull("format")
    /\ UNCHANGED <<sideVars, hwMissing, rectVars, colorVars, seen, hcont, tried, wpc, drm_active_pipe, drm_req,
                   drm_buffers, drm_mode_blob_id, drm_palette_blob_id,
                   drm_triplebuf_thread, drm_triplebuf_thread_stop, hidden_bpp,
                   mtxVars, hWoken, surfVars, kernVars>>
    /\ commitEv' = NoCommit

\* Lines 425-429: one iteration of the buffer creation loop.
SVM_CreateFramebuffer(outcome) ==
    /\ hpc = "smv_create"
    /\ LET r == KMSDRM_CreateFramebuffer(fb_i, outcome)
           made == [drm_buffers EXCEPT ![fb_i] = r.slot]
       IN IF r.ret = 1
          THEN /\ drm_buffers' = made
               /\ kHandles' = r.handles /\ kFBs' = r.fbs
               /\ scanout' = scanout
               /\ IF fb_i + 1 < args.n_buf
                  THEN fb_i' = fb_i + 1 /\ hpc' = "smv_create" /\ pipeIdx' = pipeIdx
                  ELSE fb_i' = 0 /\ hpc' = "smv_pipe" /\ pipeIdx' = 1
               /\ UNCHANGED <<args, lastRet, failAt>>
          ELSE \* goto setvidmode_fail_fbs
               /\ DoClearFramebuffers(made, r.fbs, r.handles)
               /\ ReturnNull("buffers")
    /\ UNCHANGED <<sideVars, hwMissing, rectVars, colorVars, seen, idx_set, hcont, tried, wpc, drm_active_pipe, drm_req,
                   drm_mode_blob_id, drm_palette_blob_id, idxVars,
                   drm_triplebuf_thread, drm_triplebuf_thread_stop, hidden_bpp,
                   mtxVars, hWoken, surfVars, kModeBlobs, kGammaBlobs, kReqs>>
    /\ commitEv' = NoCommit

\* drmModeDestroyPropertyBlob(id): the kernel destroys whatever blob of this
\* client has the id.
DestroyBlob(id) ==
    /\ kModeBlobs' = kModeBlobs \ {id}
    /\ kGammaBlobs' = kGammaBlobs \ {id}

\* Mutant of PipeAttempt: a failed commit bails out like a failed
\* KMSDRM_SetCrtcParams instead of moving on to the next pipe.
PipeAttemptCommitFatal(p, rc) ==
    IF ~TemplatePropsOK(p) THEN "prop"
    ELSE IF ~PlanePropsOK(p) THEN "prop2"
    ELSE IF ~KMSDRM_SetCrtcParams(p, args.bpp) THEN "crtc"
    ELSE IF rc THEN "ok" ELSE "crtc"

\* Outcome of one iteration of the modeset retry loop for pipe p, where rc is
\* the result of drmModeAtomicCommit (TRUE: 0) should the iteration get there:
\* "prop" (goto setvidmode_fail_req), "prop2" and "crtc" (goto
\* setvidmode_fail_req2), "commit" (rc # 0, try the next pipe), "ok" (break).
PipeAttempt(p, rc) ==
    IF ~TemplatePropsOK(p) THEN "prop"
    ELSE IF ~PlanePropsOK(p) THEN "prop2"
    ELSE IF ~KMSDRM_SetCrtcParams(p, args.bpp) THEN "crtc"
    ELSE IF rc THEN "ok" ELSE "commit"

\* Mutant of ActivePipeAfter: the active pipe is not cleared when the commit
\* fails.
ActivePipeNotCleared(p, o) ==
    CASE o \in {"ok", "crtc", "commit"} -> p
      [] OTHER -> drm_active_pipe

\* drm_active_pipe when the iteration for pipe p ends with outcome o: it is
\* assigned before KMSDRM_SetCrtcParams and cleared only when the commit fails.
ActivePipeAfter(p, o) ==
    CASE o \in {"ok", "crtc"} -> p
      [] o = "commit" -> 0
      [] OTHER -> drm_active_pipe

\* Lines 441-509: one iteration of the modeset retry loop.
SVM_Pipe(rc) ==
    /\ hpc = "smv_pipe"
    /\ LET p == pipeIdx
           blob == lowestFree(ObjIds)
           o == PipeAttempt(p, rc)
       IN /\ tried' = Append(tried, <<p, o>>)
          /\ drm_active_pipe' = ActivePipeAfter(p, o)
          /\ IF o = "ok"
             THEN /\ drm_mode_blob_id' = blob
                  /\ kModeBlobs' = kModeBlobs \cup {blob}
                  /\ drm_req' = "live" /\ kReqs' = kReqs + 1
                  /\ hidden_bpp' = args.bpp
                  /\ scanout' = ModesetFB
                  /\ hpc' = "smv_finish"
                  /\ UNCHANGED <<drm_buffers, kFBs, kHandles, pipeIdx, args,
                                 fb_i, lastRet, failAt>>
             ELSE /\ drm_mode_blob_id' = Sentinel
                  /\ kModeBlobs' = kModeBlobs
                  /\ drm_req' = IF o = "prop" THEN drm_req ELSE "null"
                  /\ kReqs' = kReqs
                  /\ hidden_bpp' = hidden_bpp
                  /\ IF o = "commit"
                     THEN /\ pipeIdx' = p + 1
                          /\ hpc' = IF p + 1 <= NPipes THEN "smv_pipe" ELSE "smv_finish"
                          /\ UNCHANGED <<drm_buffers, kFBs, kHandles, scanout,
                                         args, fb_i, lastRet, failAt>>
                     ELSE /\ DoClearFramebuffers(drm_buffers, kFBs, kHandles)
                          /\ ReturnNull(o)
          /\ commitEv' = IF o \in {"ok", "commit"}
                          THEN CommitOf("modeset", "h", p, ModesetFB, rc,
                                        args.bpp, TRUE)
                          ELSE NoCommit
    /\ UNCHANGED <<sideVars, hwMissing, rectVars, colorVars, seen, idx_set, hcont, wpc, drm_palette_blob_id, idxVars,
                   drm_triplebuf_thread, drm_triplebuf_thread_stop,
                   mtxVars, hWoken, surfVars, kGammaBlobs>>

\* Lines 511-543: bail out when no pipe is active or the surface format cannot
\* be rebuilt (fmt = FALSE: SDL_ReallocFormat returns NULL); else fill in the
\* surface.
SVM_Finish(fmt) ==
    /\ hpc = "smv_finish"
    /\ IF drm_active_pipe = 0 \/ ~fmt
       THEN /\ DoClearFramebuffers(drm_buffers, kFBs, kHandles)
            /\ ReturnNull(IF drm_active_pipe = 0 THEN "exhausted" ELSE "realloc")
            /\ UNCHANGED <<surfVars, has_damage_clips>>
       ELSE /\ surf_pixels' = ModesetPixels(args.n_buf)
            /\ surf_flags' = FlagsOf(args.n_buf)
            /\ has_damage_clips' = find_property("plane", PipePlane(drm_active_pipe),
                                                 "FB_DAMAGE_CLIPS")
            /\ UNCHANGED <<drm_buffers, kFBs, kHandles, scanout, failAt>>
            /\ IF StartsWorker(args.n_buf)
               THEN /\ hpc' = "smv_thread"
                    /\ UNCHANGED <<args, fb_i, pipeIdx, lastRet>>
               ELSE /\ hpc' = "idle" /\ lastRet' = "surface"
                    /\ args' = NoArgs
                    /\ fb_i' = 0 /\ pipeIdx' = 0
    /\ UNCHANGED <<sideVars, hwMissing, kDamageBlobs, colorVars, seen, idx_set, hcont, tried, wpc, drm_active_pipe, drm_req,
                   drm_mode_blob_id, drm_palette_blob_id, idxVars,
                   drm_triplebuf_thread, drm_triplebuf_thread_stop, hidden_bpp,
                   mtxVars, hWoken, kModeBlobs, kGammaBlobs, kReqs>>
    /\ commitEv' = NoCommit

\* The mutex after the host's SDL_LockMutex followed by its SDL_CondWait.
HandshakeMutex == Released("h", LockedBy("h")[2])

\* Lines 546-551: lock, clear the stop flag, create the worker, wait for it.
SVM_StartThread ==
    /\ hpc = "smv_thread"
    /\ CanLock("h")
    /\ drm_triplebuf_thread_stop' = 0
    /\ drm_triplebuf_thread' = 1
    /\ wpc' = "start"
    /\ mtx_owner' = HandshakeMutex[1] /\ mtx_count' = HandshakeMutex[2]
    /\ hWoken' = FALSE
    /\ hpc' = "hs_wait"
    /\ UNCHANGED <<sideVars, hwMissing, rectVars, colorVars, seen, idx_set, hcont, args, fb_i, pipeIdx, lastRet, failAt, tried,
                   drm_active_pipe, drm_req, drm_buffers, drm_mode_blob_id,
                   drm_palette_blob_id, idxVars, hidden_bpp, surfVars, kernVars>>
    /\ commitEv' = NoCommit

\* Lines 551-557: SDL_CondWait returns once signalled and the mutex can be
\* taken again; unlock and return the surface.
SVM_Return ==
    /\ hpc = "hs_wait"
    /\ hWoken
    /\ CanLock("h")
    /\ hWoken' = FALSE
    /\ hpc' = "idle" /\ lastRet' = "surface"
    /\ args' = NoArgs
    /\ fb_i' = 0 /\ pipeIdx' = 0
    /\ UNCHANGED <<sideVars, hwMissing, rectVars, colorVars, seen, idx_set, hcont, failAt, tried, wpc, drm_active_pipe, drm_req,
                   drm_buffers, drm_mode_blob_id, drm_palette_blob_id, idxVars,
                   drm_triplebuf_thread, drm_triplebuf_thread_stop, hidden_bpp,
                   mtxVars, surfVars, kernVars>>
    /\ commitEv' = NoCommit

\* ------------------------------------------------- KMSDRM_TripleBufferStop
\* Mutant of StopSignalTargets: KMSDRM_TripleBufferStop sets the flag and
\* does not signal.
StopWithoutSignal == {"nobody"}

\* The thread woken by the SDL_CondSignal of KMSDRM_TripleBufferStop.
StopSignalTargets == SignalTargets

\* Lines 647-650: lock, set the stop flag, signal, unlock.
Stop_Signal ==
    /\ hpc = "stop_lock"
    /\ CanLock("h")
    /\ drm_triplebuf_thread_stop' = 1
    /\ \E t \in StopSignalTargets : wpc' = IF t = "w" THEN "woken" ELSE wpc
    /\ hpc' = "stop_join"
    /\ UNCHANGED <<sideVars, hwMissing, rectVars, colorVars, seen, idx_set, hcont, args, fb_i, pipeIdx, lastRet, failAt, tried,
                   drm_active_pipe, drm_req, drm_buffers, drm_mode_blob_id,
                   drm_palette_blob_id, idxVars, drm_triplebuf_thread,
                   hidden_bpp, mtxVars, hWoken, surfVars, kernVars>>
    /\ commitEv' = NoCommit

\* Where the caller of KMSDRM_TripleBufferStop goes on.
AfterStop == IF hcont = "smv" THEN "smv_cleanup" ELSE "quit_clear"

\* Lines 652-653: SDL_WaitThread returns once the worker has returned.
Stop_Join ==
    /\ hpc = "stop_join"
    /\ wpc = "exited"
    /\ wpc' = "none"
    /\ drm_triplebuf_thread' = 0
    /\ hpc' = AfterStop
    /\ hcont' = "none"
    /\ UNCHANGED <<sideVars, hwMissing, rectVars, colorVars, seen, idx_set, args, fb_i, pipeIdx, lastRet, failAt, tried,
                   drm_active_pipe, drm_req, drm_buffers, drm_mode_blob_id,
                   drm_palette_blob_id, idxVars, drm_triplebuf_thread_stop,
                   hidden_bpp, mtxVars, hWoken, surfVars, kernVars>>
    /\ commitEv' = NoCommit

\* ---------------------------------------------------- KMSDRM_FlipHWSurface
\* A host call other than SetVideoMode forgets the bookkeeping of the last one.
ForgetCall == tried' = <<>> /\ failAt' = "none"

\* Lines 666-667: no active pipe.
Flip_Unarmed ==
    /\ hpc = "idle"
    /\ drm_active_pipe = 0
    /\ lastRet' = "unarmed"
    /\ ForgetCall
    /\ UNCHANGED <<sideVars, hwMissing, rectVars, colorVars, seen, idx_set, hpc, hcont, args, fb_i, pipeIdx, wpc,
                   drm_active_pipe, drm_req, drm_buffers, drm_mode_blob_id,
                   drm_palette_blob_id, idxVars, drm_triplebuf_thread,
                   drm_triplebuf_thread_stop, hidden_bpp, mtxVars, hWoken,
                   surfVars, kernVars>>
    /\ commitEv' = NoCommit

\* surface->pixels after the swap: the map of the new back slot.
FlipPixels == drm_buffers[SwapFrontBack[2]].map

\* Lines 670-688 and 693-705: the double-buffer flip; ok is the result of the
\* commit.
Flip_Double(ok) ==
    /\ hpc = "idle"
    /\ drm_active_pipe # 0
    /\ surf_flags = "double"
    /\ ok \in FlipCommitResults(DoubleFlipFB)
    /\ commitEv' = CommitOf("flip", "h", drm_active_pipe, DoubleFlipFB, ok,
                             hidden_bpp, drm_req = "live")
    /\ scanout' = IF ok THEN DoubleFlipFB ELSE scanout
    /\ drm_front_buffer' = SwapFrontBack[1]
    /\ drm_back_buffer' = SwapFrontBack[2]
    /\ drm_queued_buffer' = SwapFrontBack[3]
    /\ surf_pixels' = FlipPixels
    /\ lastRet' = "flipped"
    /\ ForgetCall
    /\ UNCHANGED <<sideVars, hwMissing, rectVars, colorVars, seen, idx_set, hpc, hcont, args, fb_i, pipeIdx, wpc,
                   drm_active_pipe, drm_req, drm_buffers, drm_mode_blob_id,
                   drm_palette_blob_id, drm_triplebuf_thread,
                   drm_triplebuf_thread_stop, hidden_bpp, mtxVars, hWoken,
                   surf_flags, kFBs, kHandles, kModeBlobs, kGammaBlobs, kReqs>>

\* Lines 689-691: any other mode goes for the mutex.
Flip_Enter ==
    /\ hpc = "idle"
    /\ drm_active_pipe # 0
    /\ surf_flags # "double"
    /\ surf_flags = "single" => mtx_count < MaxLockDepth
    /\ hpc' = "flip_lock"
    /\ lastRet' = "none"
    /\ ForgetCall
    /\ UNCHANGED <<sideVars, hwMissing, rectVars, colorVars, seen, idx_set, hcont, args, fb_i, pipeIdx, wpc,
                   drm_active_pipe, drm_req, drm_buffers, drm_mode_blob_id,
                   drm_palette_blob_id, idxVars, drm_triplebuf_thread,
                   drm_triplebuf_thread_stop, hidden_bpp, mtxVars, hWoken,
                   surfVars, kernVars>>
    /\ commitEv' = NoCommit

\* The flip worker is armed: a pipe is active, the surface is
\* triple-buffered and the worker thread exists.
WorkerArmed ==
    /\ drm_active_pipe # 0
    /\ surf_flags = "triple"
    /\ drm_triplebuf_thread # 0

\* Bookkeeping of the flips served by an armed worker: the front index right
\* after the call (the slot that was back before it), and whether the worker
\* had served every earlier signal when the call swapped (it was back in its
\* wait).  The last three calls are kept.
SeenAfterFlip ==
    IF WorkerArmed
    THEN LET e == [front |-> SwapFrontBack[1], served |-> (wpc = "wait")]
         IN IF Len(seen) < NSlots THEN Append(seen, e)
            ELSE Append(Tail(seen), e)
    ELSE seen

\* The mutex when KMSDRM_FlipHWSurface returns, having locked it: unlocked
\* again only when the surface is triple-buffered.
FlipMutexAfter == IF surf_flags = "triple" THEN <<mtx_owner, mtx_count>>
                  ELSE LockedBy("h")

\* Mutant of FlipSignalTargets: FlipHWSurface swaps and does not signal.
FlipWithoutSignal == {"nobody"}

\* The thread woken by the SDL_CondSignal of KMSDRM_FlipHWSurface.
FlipSignalTargets == IF surf_flags = "triple" THEN SignalTargets ELSE {"nobody"}

\* Lines 690-705: with the mutex, swap, publish the pixels, signal and unlock
\* when triple-buffered.
Flip_Locked ==
    /\ hpc = "flip_lock"
    /\ CanLock("h")
    /\ drm_front_buffer' = SwapFrontBack[1]
    /\ drm_back_buffer' = SwapFrontBack[2]
    /\ drm_queued_buffer' = SwapFrontBack[3]
    /\ surf_pixels' = FlipPixels
    /\ \E t \in FlipSignalTargets : wpc' = IF t = "w" THEN "woken" ELSE wpc
    /\ mtx_owner' = FlipMutexAfter[1] /\ mtx_count' = FlipMutexAfter[2]
    /\ hpc' = "idle"
    /\ lastRet' = "flipped"
    /\ seen' = SeenAfterFlip
    /\ UNCHANGED <<sideVars, hwMissing, rectVars, colorVars, idx_set, hcont, args, fb_i, pipeIdx, failAt, tried,
                   drm_active_pipe, drm_req, drm_buffers, drm_mode_blob_id,
                   drm_palette_blob_id, drm_triplebuf_thread,
                   drm_triplebuf_thread_stop, hidden_bpp, hWoken,
                   surf_flags, kernVars>>
    /\ commitEv' = NoCommit

\* --------------------------------------------------------- KMSDRM_VideoQuit
\* Line 799: nothing is torn down when the screen has no pixels.
QuitCleans == surf_pixels # 0

\* Lines 799-801, 656-659.
Quit_Call ==
    /\ hpc = "idle"
    /\ IF QuitCleans
       THEN IF NeedsStop THEN hpc' = "stop_lock" /\ hcont' = "quit"
                         ELSE hpc' = "quit_clear" /\ hcont' = hcont
       ELSE hpc' = "done" /\ hcont' = hcont
    /\ seen' = <<>>
    /\ UNCHANGED <<sideVars, hwMissing, rectVars, colorVars, idx_set, lastRet, failAt, tried, args, fb_i, pipeIdx, wpc,
                   drm_active_pipe, drm_req, drm_buffers, drm_mode_blob_id,
                   drm_palette_blob_id, idxVars, drm_triplebuf_thread,
                   drm_triplebuf_thread_stop, hidden_bpp, mtxVars, hWoken,
                   surfVars, kernVars>>
    /\ commitEv' = NoCommit

\* The blobs KMSDRM_VideoQuit destroys.
QuitDestroyedBlobs == {drm_palette_blob_id}

\* Lines 802-807: clear the buffers, destroy the gamma blob, free the property
\* cache and the pipes, forget the pixels.
Quit_Clear ==
    /\ hpc = "quit_clear"
    /\ DoClearFramebuffers(drm_buffers, kFBs, kHandles)
    /\ kModeBlobs' = kModeBlobs \ QuitDestroyedBlobs
    /\ kGammaBlobs' = kGammaBlobs \ QuitDestroyedBlobs
    /\ surf_pixels' = 0
    /\ hpc' = "done"
    /\ UNCHANGED <<sideVars, hwMissing, rectVars, colorVars, seen, idx_set, hcont, args, fb_i, pipeIdx, lastRet, failAt, tried,
                   wpc, drm_active_pipe, drm_req, drm_mode_blob_id,
                   drm_palette_blob_id, idxVars, drm_triplebuf_thread,
                   drm_triplebuf_thread_stop, hidden_bpp, mtxVars, hWoken,
                   surf_flags, kReqs>>
    /\ commitEv' = NoCommit

\* --------------------------------------------------------- KMSDRM_SetColors
\* Line 774: the SDL_Color read for palette entry i, colors[i].  colors holds
\* the caller's ncolors entries (0-based); a read past them yields `behind`.
ColorRead(colors, ncolors, behind, i) ==
    IF i < ncolors THEN colors[i] ELSE behind

\* Lines 772-778: the palette after the loop.
PaletteAfter(pal, firstcolor, ncolors, colors, behind) ==
    [i \in PaletteIdx |->
        IF firstcolor <= i /\ i < firstcolor + ncolors
        THEN LutOf(ColorRead(colors, ncolors, behind, i)) ELSE pal[i]]

\* Mutant of SetColorsDestroys: the blob just created is destroyed.
SetColorsDestroysNew(old_palette_id, blob_id) == blob_id

\* Line 789: the blob SetColors destroys, given the cached id before the
\* call and the id of the blob just created.
SetColorsDestroys(old_palette_id, blob_id) == old_palette_id

\* Lines 780-791: the value KMSDRM_SetColors returns, `return 1` under the
\* failed drmModeCreatePropertyBlob and `return(0)` at the end.
SetColorsReturn(created) == IF created THEN 0 ELSE 1

\* Lines 767-792.  created: drmModeCreatePropertyBlob succeeds.
KMSDRM_SetColors(firstcolor, ncolors, colors, behind, created) ==
    /\ hpc = "idle"
    /\ firstcolor + ncolors <= PaletteLen
    /\ colorsArg' = [first |-> firstcolor, n |-> ncolors,
                     colors |-> [k \in 1..ncolors |-> colors[k - 1]],
                     ret |-> SetColorsReturn(created)]
    /\ drm_palette' = PaletteAfter(drm_palette, firstcolor, ncolors, colors, behind)
    /\ IF created
       THEN LET blob_id == lowestFree(ObjIds)
                gone == SetColorsDestroys(drm_palette_blob_id, blob_id)
            IN /\ drm_palette_blob_id' = blob_id
               /\ kGammaLut' = [id |-> blob_id, data |-> drm_palette']
               /\ kGammaBlobs' = (kGammaBlobs \cup {blob_id}) \ {gone}
               /\ kModeBlobs' = kModeBlobs \ {gone}
               /\ lastRet' = "colors_ok"
       ELSE /\ UNCHANGED <<drm_palette_blob_id, kGammaLut, kGammaBlobs, kModeBlobs>>
            /\ lastRet' = "colors_fail"
    /\ ForgetCall
    /\ UNCHANGED <<sideVars, hwMissing, rectVars, seen, idx_set, hpc, hcont, args, fb_i, pipeIdx, wpc,
                   drm_active_pipe, drm_req, drm_buffers, drm_mode_blob_id,
                   idxVars, drm_triplebuf_thread, drm_triplebuf_thread_stop,
                   hidden_bpp, mtxVars, hWoken, surfVars, kFBs, kHandles,
                   kReqs, scanout>>
    /\ commitEv' = NoCommit

\* ------------------------------------------------------- KMSDRM_UpdateRects
\* Line 756: the framebuffer UpdateRects names, the one of the front slot.
RectsFB == drm_buffers[drm_front_buffer].buf_id

\* Lines 708-765.  created: drmModeCreatePropertyBlob succeeds; ok: the result
\* of the DRM_MODE_ATOMIC_NONBLOCK commit.  No mutex is taken.  The request
\* is not freed when the blob cannot be created; the blob is never destroyed.
KMSDRM_UpdateRects(created, ok) ==
    /\ hpc = "idle"
    /\ lastRet' = "rects"
    /\ ForgetCall
    /\ IF drm_req = "null" \/ ~has_damage_clips
       THEN /\ created /\ ~ok
            /\ commitEv' = NoCommit
            /\ UNCHANGED <<kDamageBlobs, kReqs, scanout>>
       ELSE IF ~created
       THEN /\ ~ok
            /\ kReqs < MaxReqs
            /\ kReqs' = kReqs + 1
            /\ commitEv' = NoCommit
            /\ UNCHANGED <<kDamageBlobs, scanout>>
       ELSE /\ drm_active_pipe # 0
            /\ Cardinality(kDamageBlobs) < MaxDamageBlobs
            /\ kDamageBlobs' = kDamageBlobs \cup {lowestFree(ObjIds)}
            /\ ok \in FlipCommitResults(RectsFB)
            /\ commitEv' = CommitOf("rects", "h", drm_active_pipe, RectsFB, ok,
                                     hidden_bpp, TRUE)
            /\ scanout' = IF ok THEN RectsFB ELSE scanout
            /\ UNCHANGED kReqs
    /\ UNCHANGED <<sideVars, hwMissing, has_damage_clips, colorVars, seen, idx_set, hpc, hcont,
                   args, fb_i, pipeIdx, wpc, drm_active_pipe, drm_req,
                   drm_buffers, drm_mode_blob_id, drm_palette_blob_id, idxVars,
                   drm_triplebuf_thread, drm_triplebuf_thread_stop, hidden_bpp,
                   mtxVars, hWoken, surfVars, kFBs, kHandles, kModeBlobs,
                   kGammaBlobs>>

\* --------------------------------------------- KMSDRM_TripleBufferingThread
workerUnchanged == <<sideVars, hwMissing, rectVars, colorVars, seen, idx_set, hpc, hcont, args, fb_i, pipeIdx, lastRet, failAt,
                     tried, drm_active_pipe, drm_req, drm_buffers,
                     drm_mode_blob_id, drm_palette_blob_id, drm_triplebuf_thread,
                     drm_triplebuf_thread_stop, hidden_bpp, surfVars, kFBs,
                     kHandles, kModeBlobs, kGammaBlobs, kReqs>>

\* Line 598: SDL_LockMutex.
W_Lock ==
    /\ wpc = "start"
    /\ CanLock("w")
    /\ mtx_owner' = LockedBy("w")[1] /\ mtx_count' = LockedBy("w")[2]
    /\ wpc' = "locked"
    /\ UNCHANGED <<workerUnchanged, idxVars, hWoken, scanout>>
    /\ commitEv' = NoCommit

\* The thread woken by the worker's "ready" SDL_CondSignal.
ReadySignalTargets == SignalTargets

\* Lines 599 and 604: signal that the worker is ready, then wait (which
\* releases the mutex).
W_Ready ==
    /\ wpc = "locked"
    /\ \E t \in ReadySignalTargets : hWoken' = IF t = "h" THEN TRUE ELSE hWoken
    /\ mtx_owner' = Released(mtx_owner, mtx_count)[1]
    /\ mtx_count' = Released(mtx_owner, mtx_count)[2]
    /\ wpc' = "wait"
    /\ UNCHANGED <<workerUnchanged, idxVars, scanout>>
    /\ commitEv' = NoCommit

\* What the worker does when SDL_CondWait returns: break when the stop flag
\* is set (lines 605-606).
WorkerBreaks == drm_triplebuf_thread_stop # 0

\* Lines 604-611 and 634-635: SDL_CondWait returns with the mutex; leave when
\* told to stop (unlocking), else rotate queued and front.
W_Wake ==
    /\ wpc = "woken"
    /\ CanLock("w")
    /\ IF WorkerBreaks
       THEN /\ wpc' = "exited"
            /\ UNCHANGED <<idxVars, mtxVars>>
       ELSE /\ wpc' = "commit"
            /\ mtx_owner' = LockedBy("w")[1] /\ mtx_count' = LockedBy("w")[2]
            /\ drm_front_buffer' = RotateQueuedFront[1]
            /\ drm_back_buffer' = RotateQueuedFront[2]
            /\ drm_queued_buffer' = RotateQueuedFront[3]
    /\ UNCHANGED <<workerUnchanged, hWoken, scanout>>
    /\ commitEv' = NoCommit

\* Lines 613-631 and 604: build the request, commit it (ok is the result),
\* free it, and wait again.
W_Commit(ok) ==
    /\ wpc = "commit"
    /\ ok \in FlipCommitResults(WorkerFlipFB)
    /\ commitEv' = CommitOf("worker", "w", drm_active_pipe, WorkerFlipFB, ok,
                             hidden_bpp, drm_req = "live")
    /\ scanout' = IF ok THEN WorkerFlipFB ELSE scanout
    /\ mtx_owner' = Released(mtx_owner, mtx_count)[1]
    /\ mtx_count' = Released(mtx_owner, mtx_count)[2]
    /\ wpc' = "wait"
    /\ UNCHANGED <<workerUnchanged, idxVars, hWoken>>

\* The worker's turn in two steps, for the threads that do not take the
\* mutex.  Lines 613-626: duplicate the template and build the request; the
\* GAMMA_LUT value is the drm_palette_blob_id read at this moment.
W_Build ==
    /\ wpc = "commit"
    /\ wpc' = "built"
    /\ w_req_gamma' = IF drm_req = "live"
                      THEN GammaLutProp(drm_active_pipe, hidden_bpp) ELSE 0
    /\ commitEv' = NoCommit
    /\ UNCHANGED <<inputVars, discVars, refresh_call, crtc_call, def_call,
                   key_call,
                   hwMissing, rectVars, colorVars, seen, idx_set, hpc, hcont,
                   args, fb_i, pipeIdx, lastRet, failAt, tried, drm_active_pipe,
                   drm_req, drm_buffers, drm_mode_blob_id, drm_palette_blob_id,
                   drm_triplebuf_thread, drm_triplebuf_thread_stop, hidden_bpp,
                   surfVars, kFBs, kHandles, kModeBlobs, kGammaBlobs, kReqs,
                   idxVars, mtxVars, hWoken, scanout>>

\* Lines 628-633 and 604: commit the request built (ok is the result), free
\* it, and wait again.
W_Submit(ok) ==
    /\ wpc = "built"
    /\ ok \in FlipCommitResults(WorkerFlipFB)
    /\ commitEv' = [CommitOf("worker", "w", drm_active_pipe, WorkerFlipFB, ok,
                              hidden_bpp, drm_req = "live")
                        EXCEPT !.gamma = w_req_gamma,
                               !.ok = ok /\ (w_req_gamma = 0
                                               \/ w_req_gamma \in kGammaBlobs)]
    /\ scanout' = IF commitEv'.ok THEN WorkerFlipFB ELSE scanout
    /\ mtx_owner' = Released(mtx_owner, mtx_count)[1]
    /\ mtx_count' = Released(mtx_owner, mtx_count)[2]
    /\ wpc' = "wait"
    /\ w_req_gamma' = 0
    /\ UNCHANGED <<inputVars, discVars, refresh_call, crtc_call, def_call,
                   key_call,
                   hwMissing, rectVars, colorVars, seen, idx_set, hpc, hcont,
                   args, fb_i, pipeIdx, lastRet, failAt, tried, drm_active_pipe,
                   drm_req, drm_buffers, drm_mode_blob_id, drm_palette_blob_id,
                   drm_triplebuf_thread, drm_triplebuf_thread_stop, hidden_bpp,
                   surfVars, kFBs, kHandles, kModeBlobs, kGammaBlobs, kReqs,
                   idxVars, hWoken>>

\* --------------------------------------------------------- KMSDRM_PumpEvents
\* The kernel queues event e on device d (between two pumps).
Dev_Event(d, e) ==
    /\ ipc = "idle"
    /\ dev_state[d] = "ok"
    /\ Backlog < MaxBacklog
    /\ dev_q' = [dev_q EXCEPT ![d] = Append(@, e)]
    /\ UNCHANGED <<coreVars, discVars, refresh_call, callVars, scaling_mode, scaling_key, ipc, idev, bytes_read,
                   read_errno, evbuf, ev_i, dev_state, input_err>>

\* Device d goes away: from now on reads fail (how = "error") or return 0
\* bytes (how = "eof").
Dev_Gone(d, how) ==
    /\ ipc = "idle"
    /\ dev_state[d] = "ok"
    /\ dev_state' = [dev_state EXCEPT ![d] = how]
    /\ UNCHANGED <<coreVars, discVars, refresh_call, callVars, scaling_mode, scaling_key, ipc, idev, bytes_read,
                   read_errno, evbuf, ev_i, dev_q, input_err>>

\* Lines 334-343: KMSDRM_PumpEvents is called and turns to the first device.
Pump_Call ==
    /\ ipc = "idle"
    /\ ipc' = "read" /\ idev' = 1
    /\ input_err' = {}
    /\ UNCHANGED <<coreVars, discVars, refresh_call, callVars, scaling_mode, scaling_key, bytes_read, read_errno,
                   evbuf, ev_i, dev_q, dev_state>>

\* Line 282: bytes_read = read(fd, events, sizeof(events)).
Pump_Read ==
    /\ ipc = "read"
    /\ bytes_read' = ReadResult(idev)[1]
    /\ read_errno' = ReadResult(idev)[2]
    /\ evbuf' = ReadResult(idev)[3]
    /\ dev_q' = IF ReadResult(idev)[1] > 0 THEN [dev_q EXCEPT ![idev] = <<>>]
                ELSE dev_q
    /\ ev_i' = 0
    /\ ipc' = "got"
    /\ UNCHANGED <<coreVars, discVars, refresh_call, callVars, scaling_mode, scaling_key, idev, dev_state, input_err>>

\* Lines 283-287 and 338-342: a negative bytes_read breaks out of the loop,
\* after SDL_SetError unless errno is EAGAIN, and PumpEvents goes on to the
\* next device or returns; any other value enters the event loop.
Pump_Dispatch ==
    /\ ipc = "got"
    /\ IF bytes_read < 0
       THEN /\ input_err' = IF read_errno # "EAGAIN" THEN input_err \cup {idev}
                                                      ELSE input_err
            /\ IF idev < Len(Devs)
               THEN idev' = idev + 1 /\ ipc' = "read"
               ELSE idev' = 0 /\ ipc' = "idle"
       ELSE /\ ipc' = "events"
            /\ UNCHANGED <<idev, input_err>>
    /\ UNCHANGED <<coreVars, discVars, refresh_call, callVars, scaling_mode, scaling_key, bytes_read, read_errno,
                   evbuf, ev_i, dev_q, dev_state>>

\* Lines 289-329: one iteration of the event loop, or its end, which goes
\* back to the read.
Pump_Event ==
    /\ ipc = "events"
    /\ IF ev_i < bytes_read
       THEN /\ scaling_mode' = ScalingAfter(scaling_mode, evbuf[ev_i + 1])
            /\ ev_i' = ev_i + 1
            /\ UNCHANGED ipc
       ELSE /\ ipc' = "read"
            /\ UNCHANGED <<scaling_mode, ev_i>>
    /\ UNCHANGED <<coreVars, discVars, refresh_call, callVars, scaling_key, idev, bytes_read, read_errno, evbuf,
                   dev_q, dev_state, input_err>>

\* ------------------------------------------------------------ specification
Host ==
    \/ \E bpp \in Bpps, n \in BufModes : SVM_Call(bpp, n)
    \/ SVM_Cleanup
    \/ SVM_Setup
    \/ \E o \in CreateOutcomes : SVM_CreateFramebuffer(o)
    \/ \E rc \in BOOLEAN : SVM_Pipe(rc)
    \/ \E fmt \in BOOLEAN : SVM_Finish(fmt)
    \/ SVM_StartThread
    \/ SVM_Return
    \/ Stop_Signal
    \/ Stop_Join
    \/ Flip_Unarmed
    \/ \E ok \in BOOLEAN : Flip_Double(ok)
    \/ Flip_Enter
    \/ Flip_Locked
    \/ Quit_Call
    \/ Quit_Clear

Worker ==
    \/ W_Lock
    \/ W_Ready
    \/ W_Wake
    \/ \E ok \in BOOLEAN : W_Commit(ok)

Next == Host \/ Worker

Spec == Init /\ [][Next]_vars

\* The scheduler runs a thread that can run: the worker's steps and the two
\* steps of KMSDRM_TripleBufferStop are taken when they stay enabled.
FairSpec == Spec /\ WF_vars(Worker) /\ WF_vars(Stop_Signal) /\ WF_vars(Stop_Join)

\* The present engine with the palette and the damage updates: SetVideoMode
\* at 8 and 16 bpp in double- and triple-buffer mode with every kernel call
\* succeeding, the flips, the worker, UpdateRects whose blob is created, and
\* SetColors called with no colors (it replaces the gamma blob and leaves the
\* palette), on hardware whose planes have FB_DAMAGE_CLIPS or whose first
\* plane lacks it.
GammaHw == {<<"none", 0, "">>, <<"plane", 1, "FB_DAMAGE_CLIPS">>}
GammaBpps == {8, 16}
GammaBufs == {2, 3}

GammaInit == hwMissing \in GammaHw /\ InitRest /\ SideIdle

GammaHost ==
    \/ \E bpp \in GammaBpps, n \in GammaBufs : SVM_Call(bpp, n)
    \/ SVM_Cleanup
    \/ SVM_Setup
    \/ SVM_CreateFramebuffer("ok")
    \/ SVM_Pipe(TRUE)
    \/ SVM_Finish(TRUE)
    \/ SVM_StartThread
    \/ SVM_Return
    \/ Stop_Signal
    \/ Stop_Join
    \/ Flip_Unarmed
    \/ \E ok \in BOOLEAN : Flip_Double(ok)
    \/ Flip_Enter
    \/ Flip_Locked

GammaNext ==
    \/ GammaHost
    \/ Worker
    \/ \E ok \in BOOLEAN : KMSDRM_UpdateRects(TRUE, ok)
    \/ KMSDRM_SetColors(0, 0, <<>>, [r |-> 7, g |-> 7, b |-> 7], TRUE)

GammaSpec == GammaInit /\ [][GammaNext]_vars

\* UpdateRects with both results of drmModeCreatePropertyBlob, among the
\* calls of the palette engine.
RectsNext ==
    \/ GammaNext
    \/ KMSDRM_UpdateRects(FALSE, FALSE)

RectsSpec == GammaInit /\ [][RectsNext]_vars

\* The keymap lookup on its own: one EV_KEY event of each code and value that
\* is not the scaling key (lines 299-308).
KeyInit ==
    /\ hwMissing = <<"none", 0, "">> /\ InitRest
    /\ InputIdle /\ scaling_key = [set |-> FALSE, val |-> <<>>]
    /\ DiscIdle
    /\ refresh_call = [pipe |-> <<>>, refresh |-> 0, ret |-> 0]
    /\ crtc_call = NoCrtcCall /\ def_call = NoDefCall /\ w_req_gamma = 0
    /\ key_call \in [code : 0..MaxKeyCode, value : 0..1, done : {FALSE},
                      index : {0}, in_table : {TRUE}, route : {"none"}]

\* Line 300: keysym.sym = keymap[events[i].code], with no test of the code;
\* lines 302-308: the codes BTN_LEFT..BTN_TASK go to the mouse, the others to
\* the keyboard.
Key_Lookup ==
    /\ ~key_call.done
    /\ key_call' = [key_call EXCEPT
            !.done = TRUE,
            !.index = key_call.code,
            !.in_table = key_call.code < KeymapLen,
            !.route = IF key_call.code >= BTN_LEFT /\ key_call.code <= BTN_TASK
                      THEN "mouse" ELSE "keyboard"]
    /\ UNCHANGED <<coreVars, inputVars, discVars, refresh_call, crtc_call,
                   def_call, w_req_gamma>>

KeyNext == Key_Lookup
KeySpec == KeyInit /\ [][KeyNext]_vars

\* The palette against the flip worker: SetVideoMode at 8 bpp in
\* triple-buffer mode with every kernel call succeeding, the flips, SetColors
\* called with no colors, and the worker with the build of its request and
\* the commit as two steps.
RaceHost ==
    \/ SVM_Call(8, 3)
    \/ SVM_Cleanup
    \/ SVM_Setup
    \/ SVM_CreateFramebuffer("ok")
    \/ SVM_Pipe(TRUE)
    \/ SVM_Finish(TRUE)
    \/ SVM_StartThread
    \/ SVM_Return
    \/ Stop_Signal
    \/ Stop_Join
    \/ Flip_Unarmed
    \/ Flip_Enter
    \/ Flip_Locked
    \/ KMSDRM_SetColors(0, 0, <<>>, [r |-> 7, g |-> 7, b |-> 7], TRUE)

RaceWorker ==
    \/ W_Lock
    \/ W_Ready
    \/ W_Wake
    \/ W_Build
    \/ \E ok \in BOOLEAN : W_Submit(ok)

RaceInit == hwMissing = <<"none", 0, "">> /\ InitRest /\ SideIdle
RaceNext == RaceHost \/ RaceWorker
RaceSpec == RaceInit /\ [][RaceNext]_vars

\* The palette engine on its own: SetColors calls from the state VideoInit
\* leaves on hardware that has every property.
ColorInit == Init /\ hwMissing = <<"none", 0, "">>

ColorNext ==
    \E firstcolor \in 0..PaletteLen, ncolors \in 0..PaletteLen :
        \E colors \in [0..(ncolors - 1) -> ColorSet],
           behind \in ColorBytes, created \in BOOLEAN :
            KMSDRM_SetColors(firstcolor, ncolors, colors, behind, created)

ColorSpec == ColorInit /\ [][ColorNext]_vars

\* The format selection: single-buffered SetVideoMode calls of every depth
\* and flag set on hardware that has every property and whose kernel calls
\* succeed.
FormatInit == hwMissing = <<"none", 0, "">> /\ InitRest /\ SideIdle

FormatNext ==
    \/ \E depth \in 0..MaxDepth, fmt \in SUBSET FormatFlags :
            SVM_CallFlags(depth, 1, fmt)
    \/ SVM_Cleanup
    \/ SVM_Setup
    \/ SVM_CreateFramebuffer("ok")
    \/ SVM_Pipe(TRUE)
    \/ SVM_Finish(TRUE)

FormatSpec == FormatInit /\ [][FormatNext]_vars

\* The input engine: the kernel queues events and devices go away between
\* pumps; the scaling key is whatever the environment names.
InputInit ==
    /\ hwMissing = <<"none", 0, "">> /\ InitRest
    /\ InputIdle
    /\ scaling_key \in EnvValues
    /\ DiscIdle
    /\ refresh_call = [pipe |-> <<>>, refresh |-> 0, ret |-> 0]
    /\ CallIdle

Pump == Pump_Call \/ Pump_Read \/ Pump_Dispatch \/ Pump_Event

InputNext ==
    \/ \E d \in DevIdx, e \in InputEvents : Dev_Event(d, e)
    \/ \E d \in DevIdx, how \in {"error", "eof"} : Dev_Gone(d, how)
    \/ Pump

InputSpec == InputInit /\ [][InputNext]_vars

\* The host thread keeps running: a step of the pump that can be taken is
\* taken.
InputFairSpec == InputSpec /\ WF_vars(Pump)

\* Pipe discovery on its own: KMSDRM_VideoInit on each hardware explored.
DiscInit ==
    /\ hwMissing = <<"none", 0, "">> /\ InitRest
    /\ InputIdle /\ scaling_key = [set |-> FALSE, val |-> <<>>]
    /\ refresh_call = [pipe |-> <<>>, refresh |-> 0, ret |-> 0]
    /\ CallIdle
    /\ hw_res \in HwResources
    /\ vpc = "loop" /\ v_idx = <<0, 0, 0, 0>>
    /\ drm_first_pipe = <<>> /\ drm_vid_modes = <<>>
    /\ init_ret = 0

discUnchanged == <<coreVars, inputVars, refresh_call, callVars, hw_res>>

\* Lines 158-162: drmModeGetPlane failed, the plane is passed over.
VI_NoPlane ==
    /\ vpc = "loop"
    /\ v_idx[1] < Len(hw_res.planes)
    /\ ~hw_res.planes[v_idx[1] + 1].exists
    /\ v_idx' = <<v_idx[1] + 1, 0, 0, 0>>
    /\ UNCHANGED <<discUnchanged, vpc, drm_first_pipe, drm_vid_modes, init_ret>>

\* Lines 164-185: one turn of the innermost loop.
VI_Quad ==
    /\ vpc = "loop"
    /\ v_idx[1] < Len(hw_res.planes)
    /\ hw_res.planes[v_idx[1] + 1].exists
    /\ LET plane == hw_res.planes[v_idx[1] + 1]
           crtc == hw_res.crtcs[v_idx[2] + 1]
           enc == hw_res.encoders[v_idx[3] + 1]
           conn == hw_res.connectors[v_idx[4] + 1]
       IN IF Suitable(plane, crtc, v_idx[2], enc, conn)
          THEN /\ drm_first_pipe' =
                     LinkPipe(drm_first_pipe,
                              NewPipe(plane.plane_id, crtc.crtc_id,
                                      enc.encoder_id, conn))
               /\ drm_vid_modes' =
                     RegisterModes(drm_vid_modes, conn, PipeFactors(conn), 1)
          ELSE UNCHANGED <<drm_first_pipe, drm_vid_modes>>
    /\ v_idx' = NextQuad(v_idx, hw_res)
    /\ UNCHANGED <<discUnchanged, vpc, init_ret>>

\* Lines 201-231: without a pipe the initialisation fails.
VI_Finish ==
    /\ vpc = "loop"
    /\ v_idx[1] = Len(hw_res.planes)
    /\ IF drm_first_pipe = <<>>
       THEN vpc' = "failed" /\ init_ret' = -1
       ELSE vpc' = "done" /\ init_ret' = 0
    /\ UNCHANGED <<discUnchanged, v_idx, drm_first_pipe, drm_vid_modes>>

DiscNext == VI_NoPlane \/ VI_Quad \/ VI_Finish
DiscSpec == DiscInit /\ [][DiscNext]_vars

\* Refresh selection on its own: one call of find_pipe_closest_refresh on
\* each pipe and target explored; ret is -1 until the call has returned.
RefreshInit ==
    /\ hwMissing = <<"none", 0, "">> /\ InitRest
    /\ InputIdle /\ scaling_key = [set |-> FALSE, val |-> <<>>]
    /\ DiscIdle
    /\ refresh_call \in [pipe : RefreshPipes, refresh : RefreshTargets, ret : {-1}]
    /\ CallIdle

Refresh_Call ==
    /\ refresh_call.ret = -1
    /\ refresh_call' =
          [refresh_call EXCEPT
              !.ret = find_pipe_closest_refresh(refresh_call.pipe,
                                                refresh_call.refresh)]
    /\ UNCHANGED <<coreVars, inputVars, discVars, callVars>>

RefreshNext == Refresh_Call
RefreshSpec == RefreshInit /\ [][RefreshNext]_vars

\* The scaling helper on its own: one call of KMSDRM_SetCrtcParams in each
\* scaling mode, on a plane that has the four properties.
ScaleInit ==
    /\ hwMissing = <<"none", 0, "">> /\ InitRest
    /\ ipc = "idle" /\ idev = 0 /\ bytes_read = 0 /\ read_errno = ""
    /\ evbuf = <<>> /\ ev_i = 0
    /\ dev_q = [d \in DevIdx |-> <<>>]
    /\ dev_state = [d \in DevIdx |-> "ok"]
    /\ input_err = {}
    /\ scaling_mode \in DRM_SCALING_MODE_FULLSCREEN..(DRM_SCALING_MODE_END - 1)
    /\ scaling_key = [set |-> FALSE, val |-> <<>>]
    /\ DiscIdle
    /\ refresh_call = [pipe |-> <<>>, refresh |-> 0, ret |-> 0]
    /\ crtc_call \in CrtcCalls
    /\ def_call = NoDefCall /\ w_req_gamma = 0 /\ key_call = NoKeyCall

Scale_Call ==
    /\ crtc_call.ret = -1
    /\ crtc_call' =
          [crtc_call EXCEPT
              !.ret = 0,
              !.props = CrtcProps(scaling_mode, crtc_call.width,
                                  crtc_call.height, crtc_call.mode_width,
                                  crtc_call.mode_height, crtc_call.factor_w,
                                  crtc_call.factor_h)]
    /\ UNCHANGED <<coreVars, inputVars, discVars, refresh_call, def_call, w_req_gamma,
                 key_call>>

ScaleNext == Scale_Call
ScaleSpec == ScaleInit /\ [][ScaleNext]_vars

\* The color definitions on their own: one call of get_drm_color_def for each
\* depth and flag set, under each outcome of the negative shift count.
DefInit ==
    /\ hwMissing = <<"none", 0, "">> /\ InitRest
    /\ InputIdle /\ scaling_key = [set |-> FALSE, val |-> <<>>]
    /\ DiscIdle
    /\ refresh_call = [pipe |-> <<>>, refresh |-> 0, ret |-> 0]
    /\ crtc_call = NoCrtcCall /\ w_req_gamma = 0 /\ key_call = NoKeyCall
    /\ def_call \in [depth : 0..MaxDepth, flags : SUBSET FormatFlags,
                      neg_shift : NegShiftOutcomes, ret : {"none"}, def : {NoDef}]

Def_Call ==
    /\ def_call.ret = "none"
    /\ def_call' =
          [def_call EXCEPT
              !.ret = get_drm_color_def(def_call.depth, def_call.flags),
              !.def = IF get_drm_color_def(def_call.depth, def_call.flags) = "NULL"
                      THEN NoDef
                      ELSE KMSDRM_COLOR(get_drm_color_def(def_call.depth,
                                                          def_call.flags),
                                        def_call.neg_shift)]
    /\ UNCHANGED <<coreVars, inputVars, discVars, refresh_call, crtc_call, w_req_gamma,
                 key_call>>

DefNext == Def_Call
DefSpec == DefInit /\ [][DefNext]_vars

\* ==================================================================== claims
IndexesArePermutation ==
    /\ {drm_front_buffer, drm_back_buffer, drm_queued_buffer} = Slots
    /\ drm_front_buffer # drm_back_buffer
    /\ drm_front_buffer # drm_queued_buffer
    /\ drm_back_buffer # drm_queued_buffer

\* C1 (as stated): after any sequence of SetVideoMode and FlipHWSurface calls
\* and worker steps, front, back and queued are a permutation of {0,1,2}.
\* Refuted by the state VideoInit leaves (all three are 0 until the first
\* SetVideoMode) and by any number of unarmed FlipHWSurface calls.
C1_AlwaysPermutation == IndexesArePermutation

\* C1 (amended): from the moment a SetVideoMode call has set the indexes,
\* front, back and queued are pairwise distinct and together are {0,1,2}, in
\* every buffering mode and under every interleaving with the flip worker.
C1_PermutationOnceSet == idx_set => IndexesArePermutation

\* C1 witness: the worker has rotated queued and front after a flip.
C1_Witness ==
    /\ wpc = "commit"
    /\ drm_front_buffer = 2 /\ drm_back_buffer = 0 /\ drm_queued_buffer = 1

\* Triple buffering is armed: a pipe is active, the surface is
\* triple-buffered and the flip worker exists.
TripleActive ==
    /\ drm_active_pipe # 0
    /\ surf_flags = "triple"
    /\ drm_triplebuf_thread # 0

\* C2: in triple-buffer mode the slot whose mapping the application writes
\* (the back slot) is never the slot that is being scanned out.
C2_TearFree ==
    (TripleActive /\ hpc = "idle" /\ scanout # 0)
        => drm_buffers[drm_back_buffer].buf_id # scanout

\* C3: whenever no flip commit is pending (after a successful SetVideoMode,
\* after a double-buffer flip whose commit succeeded, after the worker's
\* successful commit for the latest flip), the framebuffer last committed to
\* the plane is the one of the slot indexed by front.
C3_PlaneShowsFront ==
    /\ (hpc = "idle" /\ lastRet = "surface")
            => scanout = drm_buffers[drm_front_buffer].buf_id
    /\ (hpc = "idle" /\ surf_flags = "double" /\ commitEv.by = "flip" /\ commitEv.ok)
            => scanout = drm_buffers[drm_front_buffer].buf_id
    /\ (hpc = "idle" /\ TripleActive /\ wpc = "wait"
            /\ commitEv.by = "worker" /\ commitEv.ok)
            => scanout = drm_buffers[drm_front_buffer].buf_id

\* C4: a successful SetVideoMode followed by VideoQuit leaves no live
\* framebuffer, dumb-buffer handle, mode blob or gamma blob, and no worker.
C4_QuitLeavesNothing ==
    (hpc = "done" /\ lastRet = "surface")
        => /\ kFBs = {} /\ kHandles = {}
           /\ kModeBlobs = {} /\ kGammaBlobs = {}
           /\ wpc = "none"

\* C5: whenever SetVideoMode returns null, no buffer slot and no mode blob is
\* live, the active pipe pointer is null and the cached template is null.
C5_FailureUnwinds ==
    (hpc = "idle" /\ lastRet = "null")
        => /\ kFBs = {} /\ kHandles = {}
           /\ kModeBlobs = {}
           /\ drm_active_pipe = 0
           /\ drm_req = "null"

\* The pipes before the last attempted one were tried in registration order
\* and each failed at its commit.
EarlierPipesFailedCommit ==
    \A i \in 1..(Len(tried) - 1) : tried[i] = <<i, "commit">>

\* C6: the retry loop tries the pipes in registration order and stops at the
\* first whose commit succeeds; when an iteration starts, the mode blob, the
\* request and the template of every earlier pipe are gone and the active
\* pipe is cleared; at most one mode blob is live at any time.
C6_RetryInOrder ==
    /\ Cardinality(kModeBlobs) <= 1
    /\ hpc = "smv_pipe" =>
            /\ kModeBlobs = {} /\ kReqs = 0 /\ drm_req = "null"
            /\ drm_active_pipe = 0
            /\ Len(tried) = pipeIdx - 1
            /\ \A i \in 1..Len(tried) : tried[i] = <<i, "commit">>
    /\ (hpc = "idle" /\ lastRet = "surface") =>
            /\ tried # <<>>
            /\ tried[Len(tried)] = <<drm_active_pipe, "ok">>
            /\ Len(tried) = drm_active_pipe
            /\ EarlierPipesFailedCommit
            /\ kModeBlobs = {drm_mode_blob_id}

\* C6 witness: SetVideoMode succeeded on the second pipe after the first
\* pipe's commit failed.
C6_Witness ==
    /\ hpc = "idle" /\ lastRet = "surface"
    /\ tried = <<<<1, "commit">>, <<2, "ok">>>>

\* SetVideoMode returned null from the modeset stage.
NullFromModeset ==
    /\ hpc = "idle" /\ lastRet = "null"
    /\ failAt \in {"prop", "prop2", "crtc", "exhausted"}

\* C7 (as stated): SetVideoMode returns null from the modeset stage only if
\* every registered pipe was attempted and none committed.
C7_OnlyExhaustionFatal ==
    NullFromModeset =>
        /\ Len(tried) = NPipes
        /\ \A i \in 1..NPipes : tried[i] = <<i, "commit">>

\* C7 (amended): SetVideoMode returns null from the modeset stage only if
\* every registered pipe was attempted and none committed, or if building
\* the request of one pipe failed (a non-optional property is missing, or
\* the CRTC parameters cannot be set), in which case the pipes after it are
\* not tried; a failed commit never keeps the next pipe from being tried.
C7_ExhaustionOrRequestFailure ==
    NullFromModeset =>
        /\ tried # <<>>
        /\ EarlierPipesFailedCommit
        /\ tried[Len(tried)][1] = Len(tried)
        /\ failAt = "exhausted" =>
                Len(tried) = NPipes /\ tried[NPipes][2] = "commit"
        /\ failAt # "exhausted" =>
                /\ tried[Len(tried)][2] = failAt
                /\ \/ ~TemplatePropsOK(Len(tried))
                   \/ ~PlanePropsOK(Len(tried))
                   \/ \E bpp \in Bpps : ~KMSDRM_SetCrtcParams(Len(tried), bpp)

\* C7 witness: the first pipe's commit failed, the second pipe was tried and
\* its request could not be built.
C7_Witness ==
    /\ NullFromModeset
    /\ Len(tried) = 2 /\ tried[1] = <<1, "commit">> /\ tried[2][2] = "crtc"

\* The host is inside KMSDRM_TripleBufferStop.
InStop == hpc \in {"stop_lock", "stop_join"}

\* C8: KMSDRM_TripleBufferStop always returns, wherever the worker is when
\* it is called, and a worker that wakes with the stop flag set leaves
\* without rotating the indexes or committing.
C8_StopTerminates ==
    /\ InStop ~> ~InStop
    /\ [][(wpc = "woken" /\ wpc' # "woken" /\ drm_triplebuf_thread_stop # 0)
            => /\ wpc' = "exited"
               /\ UNCHANGED <<idxVars, scanout>>
               /\ commitEv' = NoCommit]_vars

\* C8 witness: stop was requested while the worker was in the middle of a
\* commit; the worker has since left and the host is about to join it.
C8_Witness ==
    /\ hpc = "stop_join" /\ wpc = "exited"
    /\ drm_triplebuf_thread_stop = 1
    /\ scanout = drm_buffers[drm_queued_buffer].buf_id

\* A step releases a framebuffer, a dumb buffer, a mapping, a mode blob or
\* the cached template.
Releases ==
    \/ ~(kFBs \subseteq kFBs')
    \/ ~(kHandles \subseteq kHandles')
    \/ ~(kModeBlobs \subseteq kModeBlobs')
    \/ \E i \in Slots : drm_buffers[i].map # Sentinel /\ drm_buffers'[i].map = Sentinel
    \/ drm_req = "live" /\ drm_req' = "null"

\* C9: nothing is released while the flip worker is alive: the worker has
\* been joined before the first release of SetVideoMode's re-entry and of
\* VideoQuit.
C9_StopPrecedesCleanup ==
    [][Releases => (wpc = "none" /\ drm_triplebuf_thread = 0)]_vars

\* C9 witness: re-entry has stopped and joined the worker and is about to
\* release the three buffers, the mode blob and the template.
C9_Witness ==
    /\ hpc = "smv_cleanup"
    /\ drm_triplebuf_thread_stop = 1 /\ wpc = "none"
    /\ Cardinality(kFBs) = 3 /\ kModeBlobs # {} /\ drm_req = "live"

\* C10: a SetVideoMode that requests triple buffering returns only once the
\* worker is blocked in its wait, and the handshake never deadlocks (the
\* host waiting for the worker's signal while the worker can never take the
\* mutex).
C10_Handshake ==
    /\ (hpc = "idle" /\ lastRet = "surface" /\ surf_flags = "triple") => wpc = "wait"
    /\ ~(hpc = "hs_wait" /\ ~hWoken /\ wpc = "start" /\ mtx_owner = "h")

\* C11: in triple-buffer mode FlipHWSurface never waits for a page-flip
\* commit: the host is never inside FlipHWSurface, held at the mutex, while
\* the flip worker is in the middle of its commit with the mutex.
C11_FlipNeverWaits ==
    ~(hpc = "flip_lock" /\ WorkerArmed /\ wpc = "commit" /\ mtx_owner = "w")

\* The slot that was back at the latest flip (front right after it).
FlippedSlot == seen[Len(seen)].front

\* The worker has just submitted a commit of the latest flipped slot.
ServedLatest ==
    /\ seen # <<>>
    /\ commitEv.by = "worker"
    /\ commitEv.fb = drm_buffers[FlippedSlot].buf_id

\* C12: with the worker armed and no stop requested, every FlipHWSurface is
\* eventually followed by a worker commit whose FB_ID is the slot that was
\* back at the latest flip (or by a stop request); a failed worker commit
\* changes nothing on the host side and sends the worker back to its wait.
C12_FlipIsServed ==
    /\ (WorkerArmed /\ hpc = "idle" /\ lastRet = "flipped"
            /\ drm_triplebuf_thread_stop = 0)
         ~> (ServedLatest \/ drm_triplebuf_thread_stop # 0)
    /\ [][(commitEv'.by = "worker" /\ ~commitEv'.ok)
            => /\ wpc' = "wait"
               /\ UNCHANGED <<hpc, lastRet, drm_triplebuf_thread, idxVars>>]_vars

\* C12 witness: the third flip was made before the worker had served the
\* second, and the worker has now committed the slot of the third.
C12_Witness ==
    /\ ServedLatest /\ commitEv.ok
    /\ Len(seen) = 3 /\ seen[2].served /\ ~seen[3].served
    /\ scanout = drm_buffers[FlippedSlot].buf_id

\* C13: in double-buffer mode every FlipHWSurface commits, before it swaps,
\* a duplicate of the template with the FB_ID of the slot that was back,
\* swaps front and back, leaves queued and the template alone, publishes the
\* mapping of the previous front slot and returns 1.
C13_DoubleFlip ==
    [][(/\ surf_flags = "double" /\ drm_active_pipe # 0
        /\ hpc = "idle" /\ hpc' = "idle"
        /\ <<drm_front_buffer, drm_back_buffer>>' # <<drm_front_buffer, drm_back_buffer>>)
        => /\ commitEv'.by = "flip"
           /\ commitEv'.fb = drm_buffers[drm_back_buffer].buf_id
           /\ drm_front_buffer' = drm_back_buffer
           /\ drm_back_buffer' = drm_front_buffer
           /\ drm_queued_buffer' = drm_queued_buffer
           /\ surf_pixels' = drm_buffers[drm_front_buffer].map
           /\ lastRet' = "flipped"
           /\ UNCHANGED <<drm_req, kReqs, mtxVars>>]_vars

\* C13 witness: a double-buffer flip whose commit succeeded: the plane shows
\* slot 1 (back before the call), the application draws into slot 0.
C13_Witness ==
    /\ surf_flags = "double" /\ hpc = "idle" /\ lastRet = "flipped"
    /\ commitEv.by = "flip" /\ commitEv.ok
    /\ drm_front_buffer = 1 /\ drm_back_buffer = 0
    /\ scanout = drm_buffers[1].buf_id
    /\ surf_pixels = drm_buffers[0].map

\* A step is (the start of) a FlipHWSurface call.
IsFlip ==
    /\ hpc = "idle"
    /\ \/ lastRet' = "unarmed" /\ hpc' = "idle"
       \/ hpc' = "flip_lock"
       \/ commitEv'.by = "flip"

\* C14: with no pipe active, and in particular after a SetVideoMode that
\* returned null, FlipHWSurface returns -2 and changes neither the indexes,
\* the pixel pointer nor the mutex, and submits no commit.
C14_UnarmedFlip ==
    [][(IsFlip /\ (drm_active_pipe = 0 \/ lastRet = "null"))
        => /\ lastRet' = "unarmed"
           /\ UNCHANGED <<hpc, idxVars, surf_pixels, mtxVars, wpc>>
           /\ commitEv' = NoCommit]_vars

\* Single-buffer mode after a successful SetVideoMode: one framebuffer, the
\* template is cached, slot 0 is mapped.
SingleActive ==
    /\ drm_active_pipe # 0 /\ surf_flags = "single"
    /\ drm_req = "live" /\ Cardinality(kFBs) = 1
    /\ drm_buffers[0].map # Sentinel

\* C15: in single-buffer mode, after any number of FlipHWSurface calls the
\* pixel pointer is the mapping of the one created slot, never the free
\* sentinel of an uncreated slot, and no commit was submitted.
C15_SingleFlipNoOp ==
    (SingleActive /\ hpc = "idle" /\ lastRet = "flipped")
        => /\ surf_pixels = drm_buffers[0].map
           /\ surf_pixels # Sentinel
           /\ commitEv = NoCommit

\* The front indexes seen after three successive flips are pairwise distinct.
FrontsDistinct ==
    /\ seen[1].front # seen[2].front
    /\ seen[2].front # seen[3].front
    /\ seen[1].front # seen[3].front

\* A triple-buffered SetVideoMode leaves exactly three dumb buffers.
ThreeBuffers ==
    (hpc = "idle" /\ lastRet = "surface" /\ surf_flags = "triple")
        => Cardinality(kHandles) = NSlots

\* C16 (as stated): three successive FlipHWSurface calls in triple-buffer
\* mode see three different values of front, whatever the interleaving with
\* the flip worker.
C16_FrontCycles ==
    /\ ThreeBuffers
    /\ Len(seen) = NSlots => FrontsDistinct

\* C16 (amended): three successive FlipHWSurface calls see three different
\* values of front when the worker has served the signal of each call before
\* the next call swaps; front after a call always differs from front after the
\* call before it.
C16_CycleWhenServed ==
    /\ ThreeBuffers
    /\ (Len(seen) = NSlots /\ seen[2].served /\ seen[3].served) => FrontsDistinct
    /\ \A i \in 2..Len(seen) : seen[i].front # seen[i - 1].front

\* C16 witness: three flips, each served by the worker before the next.
C16_Witness ==
    /\ Len(seen) = NSlots /\ seen[2].served /\ seen[3].served
    /\ <<seen[1].front, seen[2].front, seen[3].front>> = <<1, 0, 2>>
    /\ wpc = "wait"

\* C17: a flip worker is never created while one exists; one is alive only
\* with a triple-buffered surface, an active pipe and the template, from
\* inside the SetVideoMode that created it until the stop made by the next
\* SetVideoMode or by VideoQuit; none is alive after a SetVideoMode that
\* returned null or that set a single- or double-buffered mode.
C17_WorkerOnlyWhenTriple ==
    /\ hpc = "smv_thread" => wpc = "none"
    /\ (wpc # "none") <=> (drm_triplebuf_thread # 0)
    /\ wpc # "none" =>
            /\ surf_flags = "triple" /\ drm_active_pipe # 0 /\ drm_req = "live"
            /\ hpc \in {"hs_wait", "idle", "flip_lock", "stop_lock", "stop_join"}
    /\ (hpc = "idle" /\ lastRet = "null") => wpc = "none"
    /\ (hpc = "idle" /\ lastRet = "surface") =>
            ((wpc # "none") <=> (surf_flags = "triple"))

\* C17 witness: the next SetVideoMode has started and is about to stop the
\* worker of the triple-buffered mode, which is in its wait.
C17_Witness ==
    /\ hpc = "stop_lock" /\ hcont = "smv"
    /\ wpc = "wait" /\ drm_triplebuf_thread # 0 /\ surf_flags = "triple"

\* Number of buffers of the mode the surface flags name.
BuffersOf(flags) == CASE flags = "triple" -> 3 [] flags = "double" -> 2 [] OTHER -> 1

\* C18: whenever a SetVideoMode has returned a surface, whatever calls came
\* before it, the live framebuffers and dumb buffers are exactly those of the
\* first n_buf slots, one mode blob and one template are live, a worker
\* exists iff the mode is triple-buffered, and the indexes are 0, 1, 2.
C18_Idempotent ==
    (hpc = "idle" /\ lastRet = "surface") =>
        LET used == 0..(BuffersOf(surf_flags) - 1)
        IN /\ Cardinality(kFBs) = BuffersOf(surf_flags)
           /\ Cardinality(kHandles) = BuffersOf(surf_flags)
           /\ kFBs = {drm_buffers[i].buf_id : i \in used}
           /\ kHandles = {drm_buffers[i].handle : i \in used}
           /\ kModeBlobs = {drm_mode_blob_id}
           /\ drm_req = "live" /\ kReqs = 1
           /\ (wpc # "none") <=> (surf_flags = "triple")
           /\ <<drm_front_buffer, drm_back_buffer, drm_queued_buffer>> = ResetIndexes

\* C18 witness: a single-buffered mode set after a triple-buffered one whose
\* worker was stopped.
C18_Witness ==
    /\ hpc = "idle" /\ lastRet = "surface" /\ surf_flags = "single"
    /\ drm_triplebuf_thread_stop = 1
    /\ Cardinality(kFBs) = 1

\* C19: after VideoInit and any sequence of SetColors calls exactly one
\* gamma-LUT blob is live and the cached id is its id; a SetColors that
\* succeeds publishes a new id and leaves only the new blob; one whose blob
\* creation fails leaves the cached id and the blob as they were.
C19_OneGammaBlob ==
    /\ [](/\ Cardinality(kGammaBlobs) = 1
          /\ kGammaBlobs = {drm_palette_blob_id}
          /\ kGammaLut.id = drm_palette_blob_id)
    /\ [][/\ lastRet' = "colors_ok" =>
                /\ drm_palette_blob_id' # drm_palette_blob_id
                /\ kGammaBlobs' = {drm_palette_blob_id'}
          /\ lastRet' = "colors_fail" =>
                UNCHANGED <<drm_palette_blob_id, kGammaBlobs, kGammaLut>>]_vars

\* C19 witness: a SetColors failed to create its blob after earlier ones had
\* succeeded: the palette has moved on, the published blob has not.
C19_Witness ==
    /\ lastRet = "colors_fail"
    /\ kGammaLut.data # ZeroPalette
    /\ drm_palette # kGammaLut.data
    /\ kGammaBlobs = {drm_palette_blob_id}

\* The palette SetColors(a.first, a.n, a.colors) has to leave, from pal.
ExpectedPalette(pal, a) ==
    [i \in PaletteIdx |->
        IF a.first <= i /\ i < a.first + a.n
        THEN LutOf(a.colors[i - a.first + 1]) ELSE pal[i]]

\* C20: SetColors(first, n, colors) sets palette entry first+k to colors[k]
\* shifted left by 8 for every k < n, leaves the other entries alone, and
\* the blob it publishes holds the resulting palette.
C20_SetColorsWrites ==
    [][lastRet' \in {"colors_ok", "colors_fail"} =>
            /\ drm_palette' = ExpectedPalette(drm_palette, colorsArg')
            /\ lastRet' = "colors_ok" => kGammaLut'.data = drm_palette']_vars

\* C21: SetColors returns 1 when it has published a new gamma blob and 0
\* when the blob creation failed.
C21_ReturnValue ==
    /\ lastRet = "colors_ok" => colorsArg.ret = 1
    /\ lastRet = "colors_fail" => colorsArg.ret = 0

C23_SharedStateUnderMutex ==
    (commitEv.by # "none" /\ wpc \notin {"none", "exited"}) => commitEv.locked

\* Event e is a press (or autorepeat) of the key the environment names.
PressOfNamedKey(e) ==
    /\ e.type = "EV_KEY" /\ e.value # 0
    /\ scaling_key.set /\ e.code = atoi(scaling_key.val)

C25_PumpReturns ==
    /\ (ipc # "idle") ~> (ipc = "idle")
    /\ [][(ipc = "got" /\ bytes_read < 0) =>
            /\ (idev' = idev + 1 /\ ipc' = "read") \/ ipc' = "idle"
            /\ input_err' = IF read_errno = "EAGAIN" THEN input_err
                                                     ELSE input_err \cup {idev}]_vars

\* The decision table: the depths of its columns and, per flag set, the
\* format of each column ("-": the pair is rejected).
TableDepths == <<8, 15, 16, 24, 30, 32>>
TableRow(fmt) ==
    CASE fmt = {} ->
            <<"C8", "XRGB1555", "RGB565", "RGB888", "XRGB2101010", "XRGB8888">>
      [] fmt = {"SDL_SWIZZLEBGR"} ->
            <<"-", "XBGR1555", "BGR565", "BGR888", "XBGR2101010", "XBGR8888">>
      [] fmt = {"SDL_YUV444"} ->
            <<"YUV444", "-", "-", "YUV444", "-", "-">>

\* The format the table gives for a depth and a flag set, "-" when the depth
\* is none of its columns.
TableFormat(depth, fmt) ==
    IF \E k \in 1..Len(TableDepths) : TableDepths[k] = depth
    THEN TableRow(fmt)[CHOOSE k \in 1..Len(TableDepths) : TableDepths[k] = depth]
    ELSE "-"

C27_ModesDescending ==
    vpc \in {"done", "failed"} /\ hw_res.planes # <<>> =>
        /\ \A i \in 1..(Len(drm_vid_modes) - 1) :
               drm_vid_modes[i][1] * drm_vid_modes[i][2]
                   >= drm_vid_modes[i + 1][1] * drm_vid_modes[i + 1][2]
        /\ \A i, j \in 1..Len(drm_vid_modes) :
               drm_vid_modes[i] = drm_vid_modes[j] => i = j

\* The plane of a registered pipe, as the kernel describes it.
PlaneOf(pipe) ==
    CHOOSE pl \in {hw_res.planes[i] : i \in 1..Len(hw_res.planes)} :
        pl.plane_id = pipe.plane

\* C28: no registered pipe has a plane whose type is overlay.
C28_NoOverlayPipe ==
    \A i \in 1..Len(drm_first_pipe) : PlaneOf(drm_first_pipe[i]).type # "overlay"

\* The k-th quadruple (from 0) of planes x CRTCs x encoders x connectors,
\* planes outermost and connectors innermost, as indexes from 0.
QuadAt(k, res) ==
    LET nc == Len(res.crtcs)
        ne == Len(res.encoders)
        nn == Len(res.connectors)
    IN <<k \div (nc * ne * nn), (k \div (ne * nn)) % nc, (k \div nn) % ne, k % nn>>

\* All four objects exist, both masks hold the bit of the CRTC, the connector
\* is on the encoder, connected, and has a mode.
ValidQuad(q, res) ==
    LET plane == res.planes[q[1] + 1]
        crtc == res.crtcs[q[2] + 1]
        enc == res.encoders[q[3] + 1]
        conn == res.connectors[q[4] + 1]
    IN /\ plane.exists /\ crtc.exists /\ enc.exists /\ conn.exists
       /\ (plane.possible_crtcs \div 2 ^ q[2]) % 2 = 1
       /\ (enc.possible_crtcs \div 2 ^ q[2]) % 2 = 1
       /\ conn.encoder_id = enc.encoder_id
       /\ conn.connection = "DRM_MODE_CONNECTED"
       /\ Len(conn.modes) > 0

\* The ids of the valid quadruples, in enumeration order.
RECURSIVE ValidFrom(_, _)
ValidFrom(k, res) ==
    IF k >= Len(res.planes) * Len(res.crtcs) * Len(res.encoders)
              * Len(res.connectors)
    THEN <<>>
    ELSE LET q == QuadAt(k, res)
         IN (IF ValidQuad(q, res)
             THEN << <<res.planes[q[1] + 1].plane_id, res.crtcs[q[2] + 1].crtc_id,
                       res.encoders[q[3] + 1].encoder_id,
                       res.connectors[q[4] + 1].connector_id>> >>
             ELSE <<>>) \o ValidFrom(k + 1, res)

PipeIdsOf(pipes) ==
    [i \in 1..Len(pipes) |->
        <<pipes[i].plane, pipes[i].crtc, pipes[i].encoder, pipes[i].connector>>]

AbsDiff(mode, refresh) ==
    LET d == mode.clock * 1000 - refresh * mode.htotal * mode.vtotal
    IN IF d < 0 THEN -d ELSE d
DeltaLeq(m1, m2, refresh) ==
    AbsDiff(m1, refresh) * (m2.htotal * m2.vtotal)
        <= AbsDiff(m2, refresh) * (m1.htotal * m1.vtotal)
DeltaEq(m1, m2, refresh) ==
    DeltaLeq(m1, m2, refresh) /\ DeltaLeq(m2, m1, refresh)

\* C30: find_pipe_closest_refresh returns a mode of the pipe whose refresh
\* delta is no greater than that of any other mode of the pipe, and no mode
\* before it has the same delta.
C30_ClosestRefresh ==
    refresh_call.ret # -1 /\ refresh_call.pipe # <<>> =>
        LET modes == refresh_call.pipe
            r == refresh_call.ret
        IN /\ r \in 0..(Len(modes) - 1)
           /\ \A j \in 1..Len(modes) :
                  DeltaLeq(modes[r + 1], modes[j], refresh_call.refresh)
           /\ \A j \in 1..r :
                  ~DeltaEq(modes[j], modes[r + 1], refresh_call.refresh)

\* The CRTC_W and CRTC_H the scaling helper is to set, divisions being
\* integer divisions.
ExpectedCrtcSize(mode, w, h, mw, mh, fw, fh) ==
    CASE mode = DRM_SCALING_MODE_FULLSCREEN -> <<mw, mh>>
      [] mode = DRM_SCALING_MODE_ASPECT_RATIO ->
            IF w * mh * fw > h * mw * fh
            THEN <<mw, (fh * mw * h) \div (w * fw)>>
            ELSE <<(fw * mh * w) \div (h * fh), mh>>
      [] mode = DRM_SCALING_MODE_INTEGER_SCALED ->
            IF w < mw \div fw /\ h < mh \div fh
            THEN <<w * (mw \div (w * fw)), h * (mh \div (h * fh))>>
            ELSE <<mw, mh>>

\* C31: a call of the scaling helper sets CRTC_W and CRTC_H to the size of
\* its scaling mode and CRTC_X and CRTC_Y to half of what is left of the
\* CRTC; aspect-ratio scaling of 320x240 into 800x480 gives 640x480 at
\* (80, 0).
C31_ScalingArithmetic ==
    crtc_call.ret # -1 =>
        LET c == crtc_call
            e == ExpectedCrtcSize(scaling_mode, c.width, c.height,
                                  c.mode_width, c.mode_height, c.factor_w,
                                  c.factor_h)
        IN /\ c.ret = 0
           /\ c.props.CRTC_W = e[1] /\ c.props.CRTC_H = e[2]
           /\ 2 * c.props.CRTC_X \in {c.mode_width - e[1], c.mode_width - e[1] - 1}
           /\ 2 * c.props.CRTC_Y \in {c.mode_height - e[2], c.mode_height - e[2] - 1}
           /\ (/\ scaling_mode = DRM_SCALING_MODE_ASPECT_RATIO
               /\ <<c.width, c.height, c.mode_width, c.mode_height>>
                      = <<320, 240, 800, 480>>
               /\ c.factor_w = 1 /\ c.factor_h = 1)
                  => c.props = [CRTC_X |-> 80, CRTC_Y |-> 0,
                                CRTC_W |-> 640, CRTC_H |-> 480]

\* The helper was called in aspect-ratio mode for 320x240 on an 800x480
\* CRTC and centred a 640x480 rectangle.
C31_Witness ==
    /\ crtc_call.ret = 0
    /\ scaling_mode = DRM_SCALING_MODE_ASPECT_RATIO
    /\ crtc_call.width = 320 /\ crtc_call.height = 240
    /\ crtc_call.mode_width = 800 /\ crtc_call.mode_height = 480
    /\ crtc_call.factor_w = 1 /\ crtc_call.factor_h = 1
    /\ crtc_call.props.CRTC_X = 80 /\ crtc_call.props.CRTC_W = 640

\* C39: the rectangle the scaling helper sets lies inside the CRTC: CRTC_W
\* and CRTC_H do not exceed the CRTC size, CRTC_X and CRTC_Y did not wrap
\* around, and the rectangle ends within the CRTC on both axes.
C39_RectangleInsideCrtc ==
    crtc_call.ret # -1 =>
        LET c == crtc_call
        IN /\ c.props.CRTC_W <= c.mode_width
           /\ c.props.CRTC_H <= c.mode_height
           /\ c.props.CRTC_X >= 0 /\ c.props.CRTC_X <= c.mode_width
           /\ c.props.CRTC_Y >= 0 /\ c.props.CRTC_Y <= c.mode_height
           /\ c.props.CRTC_X + c.props.CRTC_W <= c.mode_width
           /\ c.props.CRTC_Y + c.props.CRTC_H <= c.mode_height

\* The helper was called with a source larger than the CRTC on one axis and
\* a factor above 1, in a mode other than full screen, and made the
\* rectangle narrower than the CRTC.
C39_Witness ==
    /\ crtc_call.ret = 0
    /\ scaling_mode # DRM_SCALING_MODE_FULLSCREEN
    /\ crtc_call.width > crtc_call.mode_width
    /\ crtc_call.factor_w > 1
    /\ crtc_call.props.CRTC_W < crtc_call.mode_width
    /\ crtc_call.props.CRTC_X > 0

\* C32: in the color definition get_drm_color_def returns, every channel
\* with a non-zero bit count has the mask ((1 << bits) - 1) << shift, and
\* bits + shift does not exceed bpp.
C32_MasksMatchBits ==
    def_call.ret \notin {"none", "NULL"} =>
        \A c \in 1..4 :
            def_call.def.bits[c] # 0 =>
                /\ def_call.def.mask[c]
                      = (2 ^ def_call.def.bits[c] - 1) * 2 ^ def_call.def.shift[c]
                /\ def_call.def.bits[c] + def_call.def.shift[c] <= def_call.def.bpp

\* A step that is one run of KMSDRM_ClearFramebuffers: the cleanup at the
\* entry of SetVideoMode, or the one of VideoQuit.
IsClearAll == hpc \in {"smv_cleanup", "quit_clear"} /\ hpc' # hpc

\* The slot holds a buffer that was created and not destroyed since.
HoldsBuffer(slot) == slot.handle \in kHandles /\ slot.buf_id \in kFBs

\* C33: a run of KMSDRM_ClearFramebuffers issues its unmap, RmFB and
\* DESTROY_DUMB only for slots that hold a created buffer, and leaves every
\* slot with the map and the handle sentinel, so that a second run issues
\* nothing.
C33_ClearAllOnlyCreated ==
    [][IsClearAll =>
          /\ \A i \in ClearHits(drm_buffers) : HoldsBuffer(drm_buffers[i])
          /\ \A i \in Slots : /\ drm_buffers'[i].map = Sentinel
                                /\ drm_buffers'[i].handle = Sentinel
          /\ ClearHits(drm_buffers') = {}]_vars

\* A step that is one call of KMSDRM_CreateFramebuffer, and whether
\* SetVideoMode went on after it or gave up.
IsCreate == hpc = "smv_create" /\ (hpc' # "smv_create" \/ fb_i' # fb_i)
CreateSucceeded == IsCreate /\ hpc' \in {"smv_create", "smv_pipe"}
CreateFailed == IsCreate /\ hpc' = "idle" /\ lastRet' = "null"

\* C34: a call of KMSDRM_CreateFramebuffer that reports success leaves the
\* slot with a live handle, a live framebuffer and a valid mapping; one that
\* reports failure leaves no object behind that was not there before, and
\* the pitch of the slot 0.
C34_CreateAllOrNothing ==
    [][/\ CreateSucceeded =>
             /\ drm_buffers'[fb_i].handle \in kHandles' \ kHandles
             /\ drm_buffers'[fb_i].buf_id \in kFBs' \ kFBs
             /\ drm_buffers'[fb_i].map # Sentinel
       /\ CreateFailed =>
             /\ kHandles' \subseteq kHandles /\ kFBs' \subseteq kFBs
             /\ drm_buffers'[fb_i].pitch = 0]_vars

\* C35: RmFB and DESTROY_DUMB are issued only for framebuffer ids and
\* handles that are live: by a run of KMSDRM_ClearFramebuffers on its own,
\* and by the run that follows a failed KMSDRM_CreateFramebuffer (after
\* which the slot array is as the step leaves it, but for the maps).
C35_DestroyedAtMostOnce ==
    [][/\ IsClearAll =>
             \A i \in ClearHits(drm_buffers) :
                 /\ drm_buffers[i].buf_id \in kFBs
                 /\ drm_buffers[i].handle \in kHandles
       /\ CreateFailed =>
             \A i \in ClearHits(drm_buffers') :
                 /\ drm_buffers'[i].buf_id \in kFBs
                 /\ drm_buffers'[i].handle \in kHandles]_vars

\* The number of times the host thread holds drm_triplebuf_mutex.
HostLockCount == IF mtx_owner = "h" THEN mtx_count ELSE 0

\* A step on which KMSDRM_FlipHWSurface returns: with the mutex it went for,
\* after the commit of a double-buffered flip, or at once with no pipe.
FlipReturns ==
    \/ hpc = "flip_lock" /\ hpc' = "idle"
    \/ hpc = "idle" /\ hpc' = "idle"
          /\ (lastRet' = "unarmed" \/ commitEv'.by = "flip")

\* C36: when KMSDRM_FlipHWSurface returns, the host thread holds the mutex
\* as many times as when the call was made (the host's count does not change
\* between the entry of the call and its last step).
C36_FlipReleasesMutex ==
    [][FlipReturns => HostLockCount' = HostLockCount]_vars

\* C37: the GAMMA_LUT blob id carried by a commit of the flip worker at
\* 8 bpp is the id of a live blob when the commit is submitted.
C37_GammaBlobLive ==
    (commitEv.by = "worker" /\ commitEv.built /\ commitEv.bpp = 8) =>
        commitEv.gamma \in kGammaBlobs

\* C38: a call of UpdateRects leaves the kernel with the property blobs and
\* the atomic requests it had before the call: the damage-clips blob created
\* is destroyed and the duplicated request is freed.
IsUpdateRects == hpc = "idle" /\ hpc' = "idle" /\ lastRet' = "rects"
C38_UpdateRectsKeepsNoObject ==
    [][IsUpdateRects => kDamageBlobs' = kDamageBlobs /\ kReqs' = kReqs]_vars

\* C40: for every EV_KEY code a device can deliver, the mouse buttons above
\* BTN_MIDDLE and the key codes above it included, the index of the keymap
\* lookup is inside the table.
C40_LookupInsideKeymap ==
    key_call.done => key_call.index >= 0 /\ key_call.index < KeymapLen

====
